---- MODULE Spec2Model ----
(***************************************************************************)
(* Tourism-booking web application (app.py, init_db.py).                   *)
(*                                                                         *)
(* The model follows the dual-backend persistence layer (get_connection,   *)
(* get_db, close_db, _adapt_placeholders, db_execute), the start-up        *)
(* routine init_db and the route handlers that write to the database.      *)
(* Every db_execute call of a handler is one atomic step; requests of      *)
(* different clients interleave between these steps.                       *)
(***************************************************************************)
EXTENDS Integers, Sequences, FiniteSets, TLC

\* ------------------------------------------------------------------ bounds
MaxUsers    == 2   \* rows the users table may hold
MaxAdmins   == 2   \* rows the admins table may hold
MaxPackages == 3   \* ids the packages sequence may hand out
MaxBookings == 1   \* rows the bookings / payments tables may hold
MaxLog      == 1   \* rows each activity table may hold
MaxLen      == 3   \* length of the query templates of the placeholder check
MaxPend     == 2   \* uncommitted writes one request may pile up

Clients == {"c1", "c2"}

\* ------------------------------------------------------------- value sets
NULL      == -1                     \* SQL NULL / Python None where a number is expected
None      == "<None>"               \* Python None where a string is expected
Emails    == {"a@x", "b@x"}
AdminMail == "admin@demo.com"
Passwords == {"p", "q"}
Names     == {"n"}
TableNames == {"users", "admins", "packages", "admin_activity", "bookings",
               "payments", "feedback", "cloud_activity"}
Chars     == {"x", "?", "%", "s"}   \* alphabet of the query templates

VARIABLES
    env,       \* process environment: DATABASE_URL, DATABASE_PUBLIC_URL, server reachable
    phase,     \* "import": app.py's module body has not run; "started": it has,
               \* init_db_func() was called; "serving": a request has been handled
    initOk,    \* init_db returned without raising
    db,        \* committed contents of the database the connections reach
    session,   \* Flask session of each client
    pc,        \* position of each client's request
    req,       \* the handler each client's request in flight runs
    loc,       \* handler locals of the request in flight
    g,         \* flask.g of the request in flight: the "db" attribute
    pend,      \* uncommitted writes of the connection in g
    conns,     \* connections that are open: [owner, n, kind]
    nopen,     \* connections opened so far by the request in flight
    cursors,   \* cursors of the request in flight that are still open
    call,      \* outcome of the last db_execute call of the request in flight
    resp,      \* response of the request in flight
    tq,        \* placeholder check: template, backend flag and rewritten template
    probe      \* path comparison: one statement and its outcome on either path

vars == <<env, phase, initOk, db, session, pc, req, loc, g, pend, conns,
          nopen, cursors, call, resp, tq, probe>>

\* ------------------------------------------------- environment detection
\* app.py: DATABASE_URL = os.environ.get("DATABASE_URL"); IS_POSTGRES = bool(DATABASE_URL)
app_IS_POSTGRES == env.DATABASE_URL

\* init_db.py: DATABASE_URL = DATABASE_PUBLIC_URL or DATABASE_URL; IS_POSTGRES = bool(...)
init_IS_POSTGRES == env.DATABASE_PUBLIC_URL \/ env.DATABASE_URL

\* app.py: from init_db import get_connection, init_db succeeds, init_db.py is part of the program
HAS_INIT_DB == TRUE

\* init_db.get_connection: Postgres when configured and the connect succeeds,
\* otherwise the SQLite file (also as the fallback of a failed connect)
init_get_connection ==
    IF init_IS_POSTGRES /\ env.reachable THEN "pg" ELSE "sqlite"

\* app.get_connection: the kind of connection a request obtains; "error" when
\* psycopg2.connect raises in the branch without a fallback
get_connection ==
    IF HAS_INIT_DB THEN init_get_connection
    ELSE IF app_IS_POSTGRES THEN (IF env.reachable THEN "pg" ELSE "error")
         ELSE "sqlite"

\* ------------------------------------------------------ query templates
\* A template is a sequence of characters; "x" stands for any SQL text that
\* is not a placeholder.
RECURSIVE Replace(_, _, _)
\* str.replace(old, new) for a one-character old
Replace(s, old, new) ==
    IF s = <<>> THEN <<>>
    ELSE (IF Head(s) = old THEN new ELSE <<Head(s)>>) \o Replace(Tail(s), old, new)

adapt_mutant_first_only(sql, isPg) ==
    IF isPg /\ \E i \in 1..Len(sql) : sql[i] = "?"
    THEN LET i == CHOOSE j \in 1..Len(sql) :
                      sql[j] = "?" /\ \A k \in 1..(j-1) : sql[k] # "?"
         IN  SubSeq(sql, 1, i-1) \o <<"%", "s">> \o SubSeq(sql, i+1, Len(sql))
    ELSE sql

\* _adapt_placeholders with the module's IS_POSTGRES passed in
adapt(sql, isPg) == IF isPg THEN Replace(sql, "?", <<"%", "s">>) ELSE sql

_adapt_placeholders(sql) == adapt(sql, app_IS_POSTGRES)

CountQ(sql)   == Cardinality({i \in 1..Len(sql) : sql[i] = "?"})
CountFmt(sql) == Cardinality({i \in 1..(Len(sql)-1) : sql[i] = "%" /\ sql[i+1] = "s"})
CountPct(sql) == Cardinality({i \in 1..Len(sql) : sql[i] = "%"})

\* templates as the handlers write them: n placeholders in the ? convention
\* or, where the caller formats them itself, in the %s convention
RECURSIVE QMarks(_)
QMarks(n) == IF n = 0 THEN <<"x">> ELSE QMarks(n-1) \o <<"?">>
RECURSIVE Fmts(_)
Fmts(n) == IF n = 0 THEN <<"x">> ELSE Fmts(n-1) \o <<"%", "s">>

\* the driver binds a parameter tuple of nparams values to the template:
\* sqlite3 binds to ? and rejects % as syntax, psycopg2 formats %s and the
\* server rejects ? as syntax
Binds(kind, sql, nparams) ==
    IF kind = "pg" THEN CountFmt(sql) = nparams /\ CountPct(sql) = nparams
                        /\ CountQ(sql) = 0
    ELSE CountQ(sql) = nparams /\ CountPct(sql) = 0

\* ------------------------------------------------------ form conversions
\* the numbers the form strings of the model denote; NULL for None
NumberOf(v) ==
    CASE v = "1" -> 1 [] v = "2" -> 2 [] v = "100" -> 100 [] v = "200" -> 200
      [] OTHER -> NULL
IsNumeric(v) == v \in {"1", "2", "100", "200"}
\* Python int(v) / float(v) where they do not raise
int(v) == NumberOf(v)
float(v) == NumberOf(v)

\* ------------------------------------------------------- password hashes
\* werkzeug.security: the hash keeps what check_password_hash needs
generate_password_hash(password) == <<"pbkdf2", password>>
check_password_hash(pwhash, password) == pwhash[2] = password

\* Python truthiness of a form value
Truthy(v) == v \notin {None, ""}

\* ------------------------------------------------------ database contents
EmptyDb ==
    [tables |-> {}, serial |-> FALSE, pkgseq |-> 0,
     users |-> <<>>, admins |-> <<>>, packages |-> <<>>, bookings |-> <<>>,
     payments |-> <<>>, admin_activity |-> <<>>, cloud_activity |-> <<>>,
     feedback |-> <<>>]

\* a Postgres database that already holds the eight tables
ProvisionedDb == [EmptyDb EXCEPT !.tables = TableNames, !.serial = TRUE]

\* rows a table may hold in the model
Cap(t) ==
    CASE t = "users"    -> MaxUsers
      [] t = "admins"   -> MaxAdmins
      [] t = "packages" -> MaxPackages
      [] t \in {"bookings", "payments"} -> MaxBookings
      [] OTHER -> MaxLog

\* the columns declared NOT NULL by init_db's CREATE TABLE statements
NotNullCols(t) ==
    CASE t \in {"users", "admins"} -> {"fullname", "email", "password_hash"}
      [] t = "packages" -> {"title", "location", "price", "days"}
      [] t = "bookings" -> {"user_id", "package_id", "name", "email",
                            "travel_date", "persons"}
      [] t = "payments" -> {"booking_id", "user_id", "amount"}
      [] t = "feedback" -> {"message"}
      [] t = "cloud_activity" -> {"action"}
      [] OTHER -> {}

unique_mutant_none(t) == {}

\* the columns declared UNIQUE: users.email and admins.email
UniqueCols(t) == IF t \in {"users", "admins"} THEN {"email"} ELSE {}

NumCols == {"id", "user_id", "package_id", "booking_id", "admin_id",
            "persons", "amount", "price"}
StrCols == {"fullname", "email", "title", "location", "days", "name",
            "travel_date", "message", "action", "role", "status",
            "payment_status"}

\* the value bound to column col is SQL NULL
IsNull(col, v) ==
    IF col \in NumCols THEN v = NULL
    ELSE IF col \in StrCols THEN v = None
    ELSE FALSE

\* the id column is filled by the engine: BIGSERIAL on Postgres, INTEGER
\* PRIMARY KEY AUTOINCREMENT on SQLite (packages is always declared so)
AutoId(d, kind, t) ==
    IF kind = "pg" THEN TRUE ELSE (t = "packages" \/ ~d.serial)

NextId(d, t) == IF t = "packages" THEN d.pkgseq + 1 ELSE Len(d[t]) + 1

NotNullOk(t, row) ==
    \A col \in NotNullCols(t) \cap DOMAIN row : ~IsNull(col, row[col])

UniqueOk(t, rows) ==
    \A col \in UniqueCols(t) : \A i, j \in 1..Len(rows) :
        i # j => rows[i][col] # rows[j][col]

\* WHERE id = ?: a NULL parameter matches no row
Matches(row, id) == id # NULL /\ row.id = id

RECURSIVE SelectSeq2(_, _)
SelectSeq2(rows, id) ==
    IF rows = <<>> THEN <<>>
    ELSE (IF Matches(Head(rows), id) THEN <<Head(rows)>> ELSE <<>>)
         \o SelectSeq2(Tail(rows), id)

delete_mutant_all(rows, id) == <<>>

RECURSIVE RejectSeq(_, _)
\* DELETE ... WHERE id = ?: the rows that stay
RejectSeq(rows, id) ==
    IF rows = <<>> THEN <<>>
    ELSE (IF Matches(Head(rows), id) THEN <<>> ELSE <<Head(rows)>>)
         \o RejectSeq(Tail(rows), id)

RECURSIVE SelectEmail(_, _)
SelectEmail(rows, email) ==
    IF rows = <<>> THEN <<>>
    ELSE (IF email # None /\ Head(rows).email = email THEN <<Head(rows)>> ELSE <<>>)
         \o SelectEmail(Tail(rows), email)

Assign(row, set) ==
    [col \in DOMAIN row |-> IF col \in DOMAIN set THEN set[col] ELSE row[col]]

update_mutant_no_where(rows, id, set) ==
    [i \in 1..Len(rows) |-> Assign(rows[i], set)]

UpdateSeq(rows, id, set) ==
    [i \in 1..Len(rows) |-> IF Matches(rows[i], id) THEN Assign(rows[i], set)
                            ELSE rows[i]]

\* ------------------------------------------------------------- statements
\* st.op: "select_id", "select_email", "select_all", "insert", "update",
\* "delete"; st.sql is the template, st.nparams the length of params
IsWrite(st) == st.op \in {"insert", "update", "delete"}

\* the rows st would return, the contents it would leave, and whether the
\* engine accepts it, when executed with template sql on contents d
RowsOf(d, st) ==
    CASE st.op = "select_id"    -> SelectSeq2(d[st.table], st.id)
      [] st.op = "select_email" -> SelectEmail(d[st.table], st.email)
      [] st.op = "select_all"   -> d[st.table]
      [] OTHER -> <<>>

NewRow(d, kind, st) ==
    [col \in DOMAIN st.row \cup {"id"} |->
        IF col = "id" THEN (IF AutoId(d, kind, st.table) THEN NextId(d, st.table) ELSE NULL)
        ELSE st.row[col]]

Apply(d, kind, st) ==
    CASE st.op = "insert" ->
            [d EXCEPT ![st.table] = Append(@, NewRow(d, kind, st)),
                      !.pkgseq = IF st.table = "packages" THEN @ + 1 ELSE @]
      [] st.op = "update" -> [d EXCEPT ![st.table] = UpdateSeq(@, st.id, st.set)]
      [] st.op = "delete" -> [d EXCEPT ![st.table] = RejectSeq(@, st.id)]
      [] OTHER -> d

\* why the engine refuses st on contents d ("ok" when it does not): the
\* table is missing, the parameters do not bind, a NOT NULL or UNIQUE
\* constraint fails, or the table is at the model's capacity
Rejection(d, kind, st, sql) ==
    IF st.table \notin d.tables THEN "no_table"
    ELSE IF ~Binds(kind, sql, st.nparams) THEN "bind"
    ELSE IF st.op = "insert" /\ ~NotNullOk(st.table, st.row) THEN "not_null"
    ELSE IF st.op = "update"
            /\ (\E i \in 1..Len(d[st.table]) : Matches(d[st.table][i], st.id))
            /\ ~NotNullOk(st.table, st.set) THEN "not_null"
    ELSE IF IsWrite(st) /\ ~UniqueOk(st.table, Apply(d, kind, st)[st.table])
    THEN "unique"
    ELSE IF st.op = "insert"
            /\ (IF st.table = "packages" THEN d.pkgseq >= MaxPackages
                ELSE Len(d[st.table]) >= Cap(st.table)) THEN "full"
    ELSE "ok"

Accepts(d, kind, st, sql) == Rejection(d, kind, st, sql) = "ok"

RECURSIVE ApplyAll(_, _, _)
ApplyAll(d, kind, writes) ==
    IF writes = <<>> THEN d
    ELSE ApplyAll(Apply(d, kind, Head(writes)), kind, Tail(writes))

\* sqlite3 Cursor.lastrowid after the statement: the rowid of the inserted
\* row; psycopg2 reports the OID, which these tables do not have
LastRowId(d, kind, st) ==
    IF kind = "pg" \/ st.op # "insert" THEN NULL
    ELSE IF AutoId(d, kind, st.table) THEN NextId(d, st.table)
         ELSE Len(d[st.table]) + 1

\* -------------------------------------------------------------- db_execute
Flags(fetchone, fetchall, commit, return_lastrowid) ==
    [fetchone |-> fetchone, fetchall |-> fetchall, commit |-> commit,
     return_lastrowid |-> return_lastrowid]
FetchOne == Flags(TRUE, FALSE, FALSE, FALSE)
FetchAll == Flags(FALSE, TRUE, FALSE, FALSE)
Commit   == Flags(FALSE, FALSE, TRUE, FALSE)
CommitId == Flags(FALSE, FALSE, TRUE, TRUE)

\* what db_execute hands back: kind "none" is Python None, "row" one row,
\* "rows" a list of rows, "id" an id
RetNone      == [kind |-> "none", id |-> NULL, rows |-> <<>>]
RetRow(rows) == IF rows = <<>> THEN RetNone
                ELSE [kind |-> "row", id |-> NULL, rows |-> <<Head(rows)>>]
RetRows(rows) == [kind |-> "rows", id |-> NULL, rows |-> rows]
RetId(id)    == IF id = NULL THEN RetNone
                ELSE [kind |-> "id", id |-> id, rows |-> <<>>]

\* database faults that no input explains (lock timeout, lost connection,
\* full disk): in cur.execute or in db.commit
Faults == {"none", "execute", "commit"}
ReadFaults  == {"none", "execute"}   \* a SELECT has nothing to commit
WriteFaults == {"none", "commit"}    \* a write is refused by the engine or fails to commit

Raised(d, p, why, rolled, closed) ==
    [exc |-> TRUE, why |-> why, ret |-> RetNone, db |-> d,
     pend |-> IF rolled THEN <<>> ELSE p,
     rolled |-> rolled, committed |-> FALSE, cursors |-> IF closed THEN 0 ELSE 1]

Returned(d, kind, p, fl, ret) ==
    [exc |-> FALSE, why |-> "ok", ret |-> ret,
     db |-> IF fl.commit THEN ApplyAll(d, kind, p) ELSE d,
     pend |-> IF fl.commit THEN <<>> ELSE p,
     rolled |-> FALSE, committed |-> fl.commit, cursors |-> 0]

\* RETURNING id: the id of the row the statement wrote
ReturningId(view, kind, st) ==
    IF st.op = "insert" THEN (IF AutoId(view, kind, st.table) THEN NextId(view, st.table) ELSE NULL)
    ELSE LET hit == SelectSeq2(view[st.table], st.id)
         IN  IF hit = <<>> THEN NULL ELSE Head(hit).id

\* cur.execute raises: the injected fault, or the engine's refusal
ExecError(view, conn, st, sql, fault) ==
    IF fault = "execute" THEN "fault" ELSE Rejection(view, conn, st, sql)

\* db_execute, "PostgreSQL path": conn is the kind of connection in g.db, d
\* the committed contents, p the connection's uncommitted writes
pg_path(conn, d, p, st, sql2, fl, fault) ==
    IF conn # "pg"
    THEN \* db.cursor(cursor_factory=...) is not a sqlite3 call: TypeError before the try
         [exc |-> TRUE, why |-> "cursor", ret |-> RetNone, db |-> d, pend |-> p,
          rolled |-> FALSE, committed |-> FALSE, cursors |-> 0]
    ELSE LET view == ApplyAll(d, conn, p)
             p2   == IF IsWrite(st) THEN Append(p, st) ELSE p
         IN  IF fl.return_lastrowid
             THEN LET sql_exec == sql2 \o <<"x">>
                      err == IF ~IsWrite(st) /\ fault # "execute" THEN "syntax"
                             ELSE ExecError(view, conn, st, sql_exec, fault)
                  IN  IF err # "ok" THEN Raised(d, p, err, TRUE, TRUE)
                      ELSE IF fl.commit /\ fault = "commit"
                      THEN Raised(d, p2, "commit", TRUE, TRUE)
                      ELSE Returned(d, conn, p2, fl, RetId(ReturningId(view, conn, st)))
             ELSE LET err == ExecError(view, conn, st, sql2, fault)
                  IN  IF err # "ok" THEN Raised(d, p, err, TRUE, TRUE)
                      ELSE IF (fl.fetchone \/ fl.fetchall) /\ IsWrite(st)
                      THEN \* psycopg2: no results to fetch
                           Raised(d, p2, "fetch", TRUE, TRUE)
                      ELSE IF fl.commit /\ fault = "commit"
                      THEN Raised(d, p2, "commit", TRUE, TRUE)
                      ELSE Returned(d, conn, p2, fl,
                                    IF fl.fetchone THEN RetRow(RowsOf(view, st))
                                    ELSE IF fl.fetchall THEN RetRows(RowsOf(view, st))
                                    ELSE RetNone)

sqlite_mutant_no_rollback(conn, d, p, st, sql2, fl, fault) ==
    LET view == ApplyAll(d, conn, p)
        p2   == IF IsWrite(st) THEN Append(p, st) ELSE p
        err  == ExecError(view, conn, st, sql2, fault)
    IN  IF err # "ok" THEN Raised(d, p, err, FALSE, TRUE)
        ELSE IF fl.commit /\ fault = "commit"
        THEN Raised(d, p2, "commit", FALSE, TRUE)
        ELSE Returned(d, conn, p2, fl,
                      IF fl.return_lastrowid THEN RetId(LastRowId(view, conn, st))
                      ELSE IF fl.fetchone THEN RetRow(RowsOf(view, st))
                      ELSE IF fl.fetchall THEN RetRows(RowsOf(view, st))
                      ELSE RetNone)

sqlite_mutant_fetchall_first(conn, d, p, st, sql2, fl, fault) ==
    LET view == ApplyAll(d, conn, p)
        p2   == IF IsWrite(st) THEN Append(p, st) ELSE p
        err  == ExecError(view, conn, st, sql2, fault)
    IN  IF err # "ok" THEN Raised(d, p, err, TRUE, TRUE)
        ELSE IF fl.commit /\ fault = "commit"
        THEN Raised(d, p2, "commit", TRUE, TRUE)
        ELSE Returned(d, conn, p2, fl,
                      IF fl.return_lastrowid THEN RetId(LastRowId(view, conn, st))
                      ELSE IF fl.fetchall THEN RetRows(RowsOf(view, st))
                      ELSE IF fl.fetchone THEN RetRow(RowsOf(view, st))
                      ELSE RetNone)

\* db_execute, "SQLite path"
sqlite_path(conn, d, p, st, sql2, fl, fault) ==
    LET view == ApplyAll(d, conn, p)
        p2   == IF IsWrite(st) THEN Append(p, st) ELSE p
        err  == ExecError(view, conn, st, sql2, fault)
    IN  IF err # "ok" THEN Raised(d, p, err, TRUE, TRUE)
        ELSE IF conn = "pg" /\ ~fl.return_lastrowid
                /\ (fl.fetchone \/ fl.fetchall) /\ IsWrite(st)
        THEN \* a psycopg2 cursor under this path: no results to fetch
             Raised(d, p2, "fetch", TRUE, TRUE)
        ELSE IF fl.commit /\ fault = "commit"
        THEN Raised(d, p2, "commit", TRUE, TRUE)
        ELSE Returned(d, conn, p2, fl,
                      IF fl.return_lastrowid THEN RetId(LastRowId(view, conn, st))
                      ELSE IF fl.fetchone THEN RetRow(RowsOf(view, st))
                      ELSE IF fl.fetchall THEN RetRows(RowsOf(view, st))
                      ELSE RetNone)

\* ------------------------------------------------------- connection per request
NoConn == [n |-> 0, kind |-> "none"]

get_db_mutant_always_new(c) == [n |-> nopen[c] + 1, kind |-> get_connection]

\* get_db: the connection in g, opened by get_connection when g has none
get_db(c) ==
    IF g[c] = NoConn THEN [n |-> nopen[c] + 1, kind |-> get_connection]
    ELSE g[c]

\* db_execute(sql, params, flags) of client c's request, with the fault the
\* database raises in it
db_execute(c, st, fl, fault) ==
    LET conn == get_db(c)
        sql2 == _adapt_placeholders(st.sql)
    IN  IF app_IS_POSTGRES
        THEN pg_path(conn.kind, db, pend[c], st, sql2, fl, fault)
        ELSE sqlite_path(conn.kind, db, pend[c], st, sql2, fl, fault)

NoCall == [made |-> FALSE, exc |-> FALSE, why |-> "none", branch |-> "none",
           conn |-> "none",
           write |-> FALSE, flags |-> Flags(FALSE, FALSE, FALSE, FALSE),
           kind |-> "none", rolled |-> FALSE, committed |-> FALSE]

\* the effect of one db_execute call with outcome o on the connection state
DbCall(c, st, fl, o) ==
    LET conn == get_db(c) IN
    /\ g' = [g EXCEPT ![c] = conn]
    /\ nopen' = [nopen EXCEPT ![c] = conn.n]
    /\ conns' = (conns \cup {[owner |-> c, n |-> conn.n, kind |-> conn.kind]})
    /\ db' = o.db
    /\ pend' = [pend EXCEPT ![c] = o.pend]
    /\ cursors' = [cursors EXCEPT ![c] = @ + o.cursors]
    /\ call' = [call EXCEPT ![c] =
                   [made |-> TRUE, exc |-> o.exc, why |-> o.why,
                    branch |-> IF app_IS_POSTGRES THEN "pg" ELSE "sqlite",
                    conn |-> conn.kind, write |-> IsWrite(st), flags |-> fl,
                    kind |-> o.ret.kind, rolled |-> o.rolled,
                    committed |-> o.committed]]

\* ------------------------------------------------------------------ init_db
DemoPackages ==
    << [title |-> "Beach Escape", location |-> "Goa", price |-> 12999,
        days |-> "4", status |-> "Available"],
       [title |-> "Mountain Retreat", location |-> "Manali", price |-> 17999,
        days |-> "5", status |-> "Available"] >>

DefaultAdmin ==
    [fullname |-> "Admin", email |-> AdminMail,
     password_hash |-> generate_password_hash("admin123")]

InsertSt(t, row, sql) ==
    [op |-> "insert", table |-> t, row |-> row, sql |-> sql,
     nparams |-> Cardinality(DOMAIN row)]

pkg_mutant_count_zero(d) == 0

\* SELECT COUNT(*) FROM packages
PkgCount(d) == Len(d.packages)

\* the demo rows are inserted by init_db itself, beyond what the admin pages
\* may add: the id sequence has room for one more set of them
Seeds(d, kind, st) ==
    \/ Accepts(d, kind, st, st.sql)
    \/ /\ Rejection(d, kind, st, st.sql) = "full"
       /\ d.pkgseq < MaxPackages + Len(DemoPackages)

\* init_db(): the contents it leaves in database d and whether it returned.
\* Its own connection is never shared; what it did not commit is lost with it.
init_db(d) ==
    LET conn == init_get_connection
        ph(n) == IF init_IS_POSTGRES THEN Fmts(n) ELSE QMarks(n)
    IN  IF conn = "pg"
        THEN \* CREATE TABLE packages (id INTEGER PRIMARY KEY AUTOINCREMENT ...)
             \* is a syntax error on Postgres; users and admins were created
             \* in the transaction that is never committed
             [db |-> d, ok |-> FALSE]
        ELSE LET \* CREATE TABLE IF NOT EXISTS x 8, each durable at once
                 d1 == [d EXCEPT !.tables = TableNames,
                                 !.serial = IF "users" \in d.tables THEN @
                                            ELSE init_IS_POSTGRES]
                 count == IF Binds(conn, ph(1), 1)
                          THEN Len(SelectEmail(d1.admins, AdminMail))
                          ELSE 0
                 adminSt == InsertSt("admins", DefaultAdmin, ph(3))
                 pk1 == InsertSt("packages", DemoPackages[1], ph(5))
                 pk2 == InsertSt("packages", DemoPackages[2], ph(5))
             IN  IF count = 0 /\ ~Accepts(d1, conn, adminSt, adminSt.sql)
                 THEN [db |-> d1, ok |-> FALSE]
                 ELSE LET d2 == IF count = 0 THEN Apply(d1, conn, adminSt) ELSE d1
                          pkg_count == PkgCount(d2)
                      IN  IF pkg_count # 0 THEN [db |-> d2, ok |-> TRUE]
                          ELSE IF ~Seeds(d2, conn, pk1)
                                  \/ ~Seeds(Apply(d2, conn, pk1), conn, pk2)
                          THEN [db |-> d1, ok |-> FALSE]
                          ELSE [db |-> Apply(Apply(d2, conn, pk1), conn, pk2),
                                ok |-> TRUE]

\* ------------------------------------------------------------ initial state
EmptySession ==
    [has_user |-> FALSE, user_id |-> NULL, user_name |-> None,
     has_admin |-> FALSE, admin_id |-> NULL, admin_name |-> None]
NoReq == [h |-> "none"]
NoLoc == [package |-> <<>>, form |-> <<>>, booking_id |-> NULL, amount |-> NULL,
          who |-> NULL]
NoTq  == [sql |-> <<>>, pg |-> FALSE, out |-> <<>>, done |-> FALSE]
NoProbe == [done |-> FALSE]

Envs ==
    {e \in [DATABASE_URL : BOOLEAN, DATABASE_PUBLIC_URL : BOOLEAN,
            reachable : BOOLEAN, provisioned : BOOLEAN] :
        /\ e.reachable => (e.DATABASE_URL \/ e.DATABASE_PUBLIC_URL)
        /\ e.provisioned => e.reachable}

InitCommon ==
    /\ phase = "import"
    /\ initOk = FALSE
    /\ session = [c \in Clients |-> EmptySession]
    /\ pc = [c \in Clients |-> "idle"]
    /\ req = [c \in Clients |-> NoReq]
    /\ loc = [c \in Clients |-> NoLoc]
    /\ g = [c \in Clients |-> NoConn]
    /\ pend = [c \in Clients |-> <<>>]
    /\ conns = {}
    /\ nopen = [c \in Clients |-> 0]
    /\ cursors = [c \in Clients |-> 0]
    /\ call = [c \in Clients |-> NoCall]
    /\ resp = [c \in Clients |-> "none"]

Init ==
    /\ env \in Envs
    /\ db = IF env.provisioned THEN ProvisionedDb ELSE EmptyDb
    /\ tq = NoTq
    /\ probe = NoProbe
    /\ InitCommon

\* ----------------------------------------------------------------- plumbing
Fixed == phase' = "serving" /\ UNCHANGED <<env, initOk, tq, probe>>
NoDb  == UNCHANGED <<db, g, pend, conns, nopen, cursors, call>>
Goto(c, l) == pc' = [pc EXCEPT ![c] = l]
Respond(c, r) == resp' = [resp EXCEPT ![c] = r] /\ Goto(c, "teardown")
Idle(c) == phase # "import" /\ pc[c] = "idle"
Begin(c, h) == req' = [req EXCEPT ![c] = [h |-> h]]
\* a route with an <int:pid> part: the id travels with the request
BeginAt(c, h, pid) == req' = [req EXCEPT ![c] = [h |-> h, pid |-> pid]]

\* app.py module body: init_db_func() inside try/except, then the app serves
Startup ==
    /\ phase = "import"
    /\ LET r == init_db(db) IN db' = r.db /\ initOk' = r.ok
    /\ phase' = "started"
    /\ UNCHANGED <<env, tq, probe, session, pc, req, loc, g, pend, conns, nopen,
                   cursors, call, resp>>

\* the module body runs again: a restart, or another worker process importing app.py
init_db_again ==
    /\ phase = "serving"
    /\ db' = init_db(db).db
    /\ UNCHANGED <<env, phase, initOk, tq, probe, session, pc, req, loc, g, pend,
                   conns, nopen, cursors, call, resp>>

\* teardown_appcontext: close_db pops g.db and closes it
close_db(c) ==
    /\ pc[c] = "teardown"
    /\ conns' = conns \ {[owner |-> c, n |-> g[c].n, kind |-> g[c].kind]}
    /\ g' = [g EXCEPT ![c] = NoConn]
    /\ pend' = [pend EXCEPT ![c] = <<>>]
    /\ nopen' = [nopen EXCEPT ![c] = 0]
    /\ cursors' = [cursors EXCEPT ![c] = 0]
    /\ call' = [call EXCEPT ![c] = NoCall]
    /\ req' = [req EXCEPT ![c] = NoReq]
    /\ loc' = [loc EXCEPT ![c] = NoLoc]
    /\ resp' = [resp EXCEPT ![c] = "none"]
    /\ Goto(c, "idle")
    /\ UNCHANGED <<db, session>>
    /\ Fixed

\* a route that makes no database call (/ping, /about)
about(c) ==
    /\ Idle(c)
    /\ Begin(c, "about")
    /\ Respond(c, "render")
    /\ UNCHANGED <<session, loc>>
    /\ NoDb /\ Fixed

\* ---------------------------------------------------------------- log_action
\* log_action(user_id, role, action): one INSERT, the template chosen by the
\* caller's own IS_POSTGRES test, any exception swallowed
log_mutant_one_table(user_id, role, action) ==
    InsertSt("cloud_activity",
             [user_id |-> user_id, role |-> role, action |-> action],
             IF app_IS_POSTGRES THEN Fmts(3) ELSE QMarks(3))

LogSt(user_id, role, action) ==
    IF role = "admin"
    THEN InsertSt("admin_activity",
                  [admin_id |-> user_id, role |-> role, action |-> action],
                  IF app_IS_POSTGRES THEN Fmts(3) ELSE QMarks(3))
    ELSE InsertSt("cloud_activity",
                  [user_id |-> user_id, role |-> role, action |-> action],
                  IF app_IS_POSTGRES THEN Fmts(3) ELSE QMarks(3))

log_action(c, user_id, role, action, fault) ==
    LET st == LogSt(user_id, role, action)
    IN  DbCall(c, st, Commit, db_execute(c, st, Commit, fault))

\* ------------------------------------------------------------------ register
register_mutant_uncaught(c, form, fault) ==
    /\ Idle(c)
    /\ Begin(c, "register")
    /\ IF ~(Truthy(form.fullname) /\ Truthy(form.email) /\ Truthy(form.password))
       THEN Respond(c, "form_error") /\ NoDb
       ELSE LET st == InsertSt("users",
                        [fullname |-> form.fullname, email |-> form.email,
                         password_hash |-> generate_password_hash(form.password)],
                        QMarks(3))
                o == db_execute(c, st, Commit, fault)
            IN  /\ DbCall(c, st, Commit, o)
                /\ IF o.exc THEN Respond(c, "500")
                   ELSE Goto(c, "register_log") /\ UNCHANGED resp
    /\ UNCHANGED <<session, loc>>
    /\ Fixed

register(c, form, fault) ==
    /\ Idle(c)
    /\ Begin(c, "register")
    /\ IF ~(Truthy(form.fullname) /\ Truthy(form.email) /\ Truthy(form.password))
       THEN Respond(c, "form_error") /\ NoDb
       ELSE LET st == InsertSt("users",
                        [fullname |-> form.fullname, email |-> form.email,
                         password_hash |-> generate_password_hash(form.password)],
                        QMarks(3))
                o == db_execute(c, st, Commit, fault)
            IN  /\ DbCall(c, st, Commit, o)
                /\ IF o.exc THEN Respond(c, "form_error")
                   ELSE Goto(c, "register_log") /\ UNCHANGED resp
    /\ UNCHANGED <<session, loc>>
    /\ Fixed

register_log(c, fault) ==
    /\ pc[c] = "register_log"
    /\ log_action(c, NULL, "guest", "User registered", fault)
    /\ Respond(c, "redirect_login")
    /\ UNCHANGED <<session, loc, req>>
    /\ Fixed

\* --------------------------------------------------------------------- login
SelEmailSt(t, email) ==
    [op |-> "select_email", table |-> t, email |-> email, sql |-> QMarks(1),
     nparams |-> 1]
SelIdSt(t, id) ==
    [op |-> "select_id", table |-> t, id |-> id, sql |-> QMarks(1), nparams |-> 1]

login(c, form, fault) ==
    /\ Idle(c)
    /\ Begin(c, "login")
    /\ LET st == SelEmailSt("users", form.email)
           o == db_execute(c, st, FetchOne, fault)
       IN  /\ DbCall(c, st, FetchOne, o)
           /\ IF o.exc THEN Respond(c, "500") /\ UNCHANGED session
                         /\ loc' = [loc EXCEPT ![c].form = <<form>>]
              ELSE IF o.ret.kind = "none"
              THEN Respond(c, "redirect_login") /\ UNCHANGED session
                   /\ loc' = [loc EXCEPT ![c].form = <<form>>]
              ELSE LET user == o.ret.rows[1] IN
                   IF check_password_hash(user.password_hash, form.password)
                   THEN /\ session' = [session EXCEPT ![c] =
                               [EmptySession EXCEPT !.has_user = TRUE,
                                                    !.user_id = user.id,
                                                    !.user_name = user.fullname]]
                        /\ loc' = [loc EXCEPT ![c].form = <<form>>,
                                              ![c].who = user.id]
                        /\ Goto(c, "login_log") /\ UNCHANGED resp
                   ELSE Respond(c, "form_error") /\ UNCHANGED session
                        /\ loc' = [loc EXCEPT ![c].form = <<form>>]
    /\ Fixed

login_log(c, fault) ==
    /\ pc[c] = "login_log"
    /\ log_action(c, loc[c].who, "user", "User logged in", fault)
    /\ Respond(c, "redirect_dashboard")
    /\ UNCHANGED <<session, loc, req>>
    /\ Fixed

\* --------------------------------------------------------------- decorators
\* login_required / admin_required: the wrapped handler runs only with the marker
login_mutant_open(c) == TRUE

login_required(c) == session[c].has_user
admin_required(c) == session[c].has_admin

\* ------------------------------------------------------------- admin account
admin_register(c, form, fault) ==
    /\ Idle(c)
    /\ Begin(c, "admin_register")
    /\ IF ~(Truthy(form.fullname) /\ Truthy(form.email) /\ Truthy(form.password)
            /\ Truthy(form.confirm_password))
       THEN Respond(c, "redirect_admin_register") /\ NoDb
       ELSE IF form.password # form.confirm_password
       THEN Respond(c, "redirect_admin_register") /\ NoDb
       ELSE LET st == InsertSt("admins",
                        [fullname |-> form.fullname, email |-> form.email,
                         password_hash |-> generate_password_hash(form.password)],
                        QMarks(3))
                o == db_execute(c, st, Commit, fault)
            IN  /\ DbCall(c, st, Commit, o)
                /\ IF o.exc THEN Respond(c, "form_error")
                   ELSE Respond(c, "redirect_admin_login")
    /\ UNCHANGED <<session, loc>>
    /\ Fixed

admin_login_mutant_no_clear(c, form, fault) ==
    /\ Idle(c)
    /\ Begin(c, "admin_login")
    /\ LET st == SelEmailSt("admins", form.email)
           o == db_execute(c, st, FetchOne, fault)
       IN  /\ DbCall(c, st, FetchOne, o)
           /\ IF o.exc THEN Respond(c, "500") /\ UNCHANGED session
                         /\ loc' = [loc EXCEPT ![c].form = <<form>>]
              ELSE IF o.ret.kind = "none"
              THEN Respond(c, "redirect_admin_login") /\ UNCHANGED session
                   /\ loc' = [loc EXCEPT ![c].form = <<form>>]
              ELSE LET a == o.ret.rows[1] IN
                   IF check_password_hash(a.password_hash, form.password)
                   THEN /\ session' = [session EXCEPT ![c] =
                               [session[c] EXCEPT !.has_admin = TRUE,
                                                    !.admin_id = a.id,
                                                    !.admin_name = a.fullname]]
                        /\ loc' = [loc EXCEPT ![c].form = <<form>>,
                                              ![c].who = a.id]
                        /\ Goto(c, "admin_login_log") /\ UNCHANGED resp
                   ELSE Respond(c, "form_error") /\ UNCHANGED session
                        /\ loc' = [loc EXCEPT ![c].form = <<form>>]
    /\ Fixed

admin_login(c, form, fault) ==
    /\ Idle(c)
    /\ Begin(c, "admin_login")
    /\ LET st == SelEmailSt("admins", form.email)
           o == db_execute(c, st, FetchOne, fault)
       IN  /\ DbCall(c, st, FetchOne, o)
           /\ IF o.exc THEN Respond(c, "500") /\ UNCHANGED session
                         /\ loc' = [loc EXCEPT ![c].form = <<form>>]
              ELSE IF o.ret.kind = "none"
              THEN Respond(c, "redirect_admin_login") /\ UNCHANGED session
                   /\ loc' = [loc EXCEPT ![c].form = <<form>>]
              ELSE LET a == o.ret.rows[1] IN
                   IF check_password_hash(a.password_hash, form.password)
                   THEN /\ session' = [session EXCEPT ![c] =
                               [EmptySession EXCEPT !.has_admin = TRUE,
                                                    !.admin_id = a.id,
                                                    !.admin_name = a.fullname]]
                        /\ loc' = [loc EXCEPT ![c].form = <<form>>,
                                              ![c].who = a.id]
                        /\ Goto(c, "admin_login_log") /\ UNCHANGED resp
                   ELSE Respond(c, "form_error") /\ UNCHANGED session
                        /\ loc' = [loc EXCEPT ![c].form = <<form>>]
    /\ Fixed

admin_login_log(c, fault) ==
    /\ pc[c] = "admin_login_log"
    /\ log_action(c, loc[c].who, "admin", "Admin logged in", fault)
    /\ Respond(c, "redirect_admin_dashboard")
    /\ UNCHANGED <<session, loc, req>>
    /\ Fixed

UpdateSt(t, id, set) ==
    [op |-> "update", table |-> t, id |-> id, set |-> set,
     sql |-> QMarks(Cardinality(DOMAIN set) + 1),
     nparams |-> Cardinality(DOMAIN set) + 1]

\* /update-profile: one UPDATE of the session's users row, no try/except
update_profile(c, form, fault) ==
    /\ Idle(c)
    /\ Begin(c, "update_profile")
    /\ IF ~login_required(c)
       THEN Respond(c, "redirect_login") /\ NoDb
       ELSE LET st == UpdateSt("users", session[c].user_id,
                        [fullname |-> form.name, email |-> form.email])
                o == db_execute(c, st, Commit, fault)
            IN  /\ DbCall(c, st, Commit, o)
                /\ IF o.exc THEN Respond(c, "500")
                   ELSE Respond(c, "redirect_profile")
    /\ UNCHANGED <<session, loc>>
    /\ Fixed

\* /admin/profile/edit: SELECT of the admin, then the UPDATE
edit_admin_profile(c, form, fault) ==
    /\ Idle(c)
    /\ Begin(c, "edit_admin_profile")
    /\ IF ~admin_required(c)
       THEN Respond(c, "redirect_admin_login") /\ NoDb /\ UNCHANGED loc
       ELSE LET st == SelIdSt("admins", session[c].admin_id)
                o == db_execute(c, st, FetchOne, fault)
            IN  /\ DbCall(c, st, FetchOne, o)
                /\ IF o.exc THEN Respond(c, "500") /\ UNCHANGED loc
                   ELSE IF ~(Truthy(form.name) /\ Truthy(form.email))
                   THEN Respond(c, "form_error") /\ UNCHANGED loc
                   ELSE /\ loc' = [loc EXCEPT ![c].form = <<form>>]
                        /\ Goto(c, "edit_admin_update") /\ UNCHANGED resp
    /\ UNCHANGED session
    /\ Fixed

edit_admin_update(c, fault) ==
    /\ pc[c] = "edit_admin_update"
    /\ LET form == loc[c].form[1]
           st == UpdateSt("admins", session[c].admin_id,
                          [fullname |-> form.name, email |-> form.email])
           o == db_execute(c, st, Commit, fault)
       IN  /\ DbCall(c, st, Commit, o)
           /\ IF o.exc THEN Respond(c, "500")
              ELSE Respond(c, "redirect_admin_profile")
    /\ UNCHANGED <<session, loc, req>>
    /\ Fixed

\* ---------------------------------------------------------- package CRUD
add_package(c, form, fault) ==
    /\ Idle(c)
    /\ Begin(c, "add_package")
    /\ IF ~admin_required(c)
       THEN Respond(c, "redirect_admin_login") /\ NoDb /\ UNCHANGED loc
       ELSE IF ~(Truthy(form.title) /\ Truthy(form.location) /\ Truthy(form.price)
                 /\ Truthy(form.days))
       THEN Respond(c, "form_error") /\ NoDb /\ UNCHANGED loc
       ELSE LET st == InsertSt("packages",
                        [title |-> form.title, location |-> form.location,
                         price |-> float(form.price), days |-> form.days,
                         status |-> "Available"], QMarks(5))
                o == db_execute(c, st, Commit, fault)
            IN  /\ DbCall(c, st, Commit, o)
                /\ IF o.exc THEN Respond(c, "500") /\ UNCHANGED loc
                   ELSE /\ loc' = [loc EXCEPT ![c].form = <<form>>,
                                              ![c].who = session[c].admin_id]
                        /\ Goto(c, "add_package_log") /\ UNCHANGED resp
    /\ UNCHANGED session
    /\ Fixed

add_package_log(c, fault) ==
    /\ pc[c] = "add_package_log"
    /\ log_action(c, loc[c].who, "admin", "Added new package", fault)
    /\ Respond(c, "redirect_admin_packages")
    /\ UNCHANGED <<session, loc, req>>
    /\ Fixed

\* /admin/edit-package/<pid>: SELECT, 404 when absent, then the UPDATE
edit_package(c, pid, form, fault) ==
    /\ Idle(c)
    /\ BeginAt(c, "edit_package", pid)
    /\ IF ~admin_required(c)
       THEN Respond(c, "redirect_admin_login") /\ NoDb /\ UNCHANGED loc
       ELSE LET st == SelIdSt("packages", pid)
                o == db_execute(c, st, FetchOne, fault)
            IN  /\ DbCall(c, st, FetchOne, o)
                /\ IF o.exc THEN Respond(c, "500") /\ UNCHANGED loc
                   ELSE IF o.ret.kind = "none"
                   THEN Respond(c, "404") /\ UNCHANGED loc
                   ELSE /\ loc' = [loc EXCEPT ![c].package = o.ret.rows,
                                              ![c].form = <<form>>,
                                              ![c].who = session[c].admin_id]
                        /\ Goto(c, "edit_package_update") /\ UNCHANGED resp
    /\ UNCHANGED session
    /\ Fixed

edit_package_update(c, fault) ==
    /\ pc[c] = "edit_package_update"
    /\ LET form == loc[c].form[1]
           st == UpdateSt("packages", loc[c].package[1].id,
                        [title |-> form.title, location |-> form.location,
                         price |-> float(form.price), days |-> form.days,
                         status |-> form.status])
           o == db_execute(c, st, Commit, fault)
       IN  /\ DbCall(c, st, Commit, o)
           /\ IF o.exc THEN Respond(c, "500")
              ELSE Goto(c, "edit_package_log") /\ UNCHANGED resp
    /\ UNCHANGED <<session, loc, req>>
    /\ Fixed

edit_package_log(c, fault) ==
    /\ pc[c] = "edit_package_log"
    /\ log_action(c, loc[c].who, "admin", "Edited package", fault)
    /\ Respond(c, "redirect_admin_packages")
    /\ UNCHANGED <<session, loc, req>>
    /\ Fixed

DeleteSt(t, id) ==
    [op |-> "delete", table |-> t, id |-> id, sql |-> QMarks(1), nparams |-> 1]

\* /admin/delete-package/<pid>: SELECT, 404 when absent, then the DELETE
delete_package(c, pid, fault) ==
    /\ Idle(c)
    /\ BeginAt(c, "delete_package", pid)
    /\ IF ~admin_required(c)
       THEN Respond(c, "redirect_admin_login") /\ NoDb /\ UNCHANGED loc
       ELSE LET st == SelIdSt("packages", pid)
                o == db_execute(c, st, FetchOne, fault)
            IN  /\ DbCall(c, st, FetchOne, o)
                /\ IF o.exc THEN Respond(c, "500") /\ UNCHANGED loc
                   ELSE IF o.ret.kind = "none"
                   THEN Respond(c, "404") /\ UNCHANGED loc
                   ELSE /\ loc' = [loc EXCEPT ![c].package = o.ret.rows,
                                              ![c].who = session[c].admin_id]
                        /\ Goto(c, "delete_package_exec") /\ UNCHANGED resp
    /\ UNCHANGED session
    /\ Fixed

delete_package_exec(c, fault) ==
    /\ pc[c] = "delete_package_exec"
    /\ LET st == DeleteSt("packages", loc[c].package[1].id)
           o == db_execute(c, st, Commit, fault)
       IN  /\ DbCall(c, st, Commit, o)
           /\ IF o.exc THEN Respond(c, "500")
              ELSE Goto(c, "delete_package_log") /\ UNCHANGED resp
    /\ UNCHANGED <<session, loc, req>>
    /\ Fixed

delete_package_log(c, fault) ==
    /\ pc[c] = "delete_package_log"
    /\ log_action(c, loc[c].who, "admin", "Deleted package", fault)
    /\ Respond(c, "redirect_admin_packages")
    /\ UNCHANGED <<session, loc, req>>
    /\ Fixed

\* --------------------------------------------------------------- book_package
payment_mutant_pending(booking_id, user_id, amount) ==
    [booking_id |-> booking_id, user_id |-> user_id, amount |-> amount,
     payment_status |-> "PENDING", payment_method |-> "ONLINE"]

\* the parameters of INSERT INTO payments in book_package
PaymentRow(booking_id, user_id, amount) ==
    [booking_id |-> booking_id, user_id |-> user_id, amount |-> amount,
     payment_status |-> "SUCCESS", payment_method |-> "ONLINE"]

\* SELECT of the package; then, for the POST, the form check, int(persons)
\* and the amount
amount_mutant_price_only(package, persons) == package.price

\* amount = float(package["price"]) * persons; the model keeps prices as numbers
Amount(package, persons) == package.price * persons

book_package(c, package_id, form, fault) ==
    /\ Idle(c)
    /\ Begin(c, "book_package")
    /\ IF ~login_required(c)
       THEN Respond(c, "redirect_login") /\ NoDb /\ UNCHANGED loc
       ELSE LET st == SelIdSt("packages", package_id)
                o == db_execute(c, st, FetchOne, fault)
            IN  /\ DbCall(c, st, FetchOne, o)
                /\ IF o.exc THEN Respond(c, "500") /\ UNCHANGED loc
                   ELSE IF o.ret.kind = "none"
                   THEN Respond(c, "redirect_explore") /\ UNCHANGED loc
                   ELSE IF ~(Truthy(form.name) /\ Truthy(form.email)
                             /\ Truthy(form.travel_date) /\ Truthy(form.persons))
                           \/ ~IsNumeric(form.persons)
                   THEN \* flash, or ValueError caught by the except clause
                        /\ loc' = [loc EXCEPT ![c].package = o.ret.rows,
                                              ![c].form = <<form>>]
                        /\ Goto(c, "book_user") /\ UNCHANGED resp
                   ELSE /\ loc' = [loc EXCEPT
                               ![c].package = o.ret.rows,
                               ![c].form = <<form>>,
                               ![c].who = session[c].user_id,
                               ![c].amount = Amount(o.ret.rows[1], int(form.persons))]
                        /\ Goto(c, "book_insert") /\ UNCHANGED resp
    /\ UNCHANGED session
    /\ Fixed

\* INSERT INTO bookings ..., commit=True, return_lastrowid=True
book_insert(c, fault) ==
    /\ pc[c] = "book_insert"
    /\ LET form == loc[c].form[1]
           st == InsertSt("bookings",
                    [user_id |-> loc[c].who, package_id |-> loc[c].package[1].id,
                     name |-> form.name, email |-> form.email,
                     travel_date |-> form.travel_date,
                     persons |-> int(form.persons), status |-> "Confirmed"],
                    QMarks(7))
           o == db_execute(c, st, CommitId, fault)
       IN  /\ DbCall(c, st, CommitId, o)
           /\ IF o.exc THEN Goto(c, "book_user") /\ UNCHANGED loc
              ELSE /\ loc' = [loc EXCEPT ![c].booking_id = o.ret.id]
                   /\ Goto(c, "book_payment")
    /\ UNCHANGED <<session, req, resp>>
    /\ Fixed

\* INSERT INTO payments ..., commit=True
book_payment(c, fault) ==
    /\ pc[c] = "book_payment"
    /\ LET st == InsertSt("payments",
                    PaymentRow(loc[c].booking_id, loc[c].who, loc[c].amount),
                    QMarks(5))
           o == db_execute(c, st, Commit, fault)
       IN  /\ DbCall(c, st, Commit, o)
           /\ IF o.exc THEN Goto(c, "book_user") ELSE Goto(c, "book_update")
    /\ UNCHANGED <<session, loc, req, resp>>
    /\ Fixed

\* UPDATE bookings SET status = 'Confirmed' WHERE id = booking_id, commit=True
book_update(c, fault) ==
    /\ pc[c] = "book_update"
    /\ LET st == UpdateSt("bookings", loc[c].booking_id, [status |-> "Confirmed"])
           o == db_execute(c, st, Commit, fault)
       IN  /\ DbCall(c, st, Commit, o)
           /\ IF o.exc THEN Goto(c, "book_user") ELSE Goto(c, "book_log")
    /\ UNCHANGED <<session, loc, req, resp>>
    /\ Fixed

book_log(c, fault) ==
    /\ pc[c] = "book_log"
    /\ log_action(c, loc[c].who, "user", "Booked package", fault)
    /\ Respond(c, "redirect_my_bookings")
    /\ UNCHANGED <<session, loc, req>>
    /\ Fixed

\* after the flash of a failed booking: get_db().rollback() of the except
\* clause, SELECT fullname, email FROM users and the page again
book_user(c, fault) ==
    /\ pc[c] = "book_user"
    /\ LET st == SelIdSt("users", session[c].user_id)
           o == db_execute(c, st, FetchOne, fault)
       IN  /\ DbCall(c, st, FetchOne, o)
           /\ IF o.exc THEN Respond(c, "500") ELSE Respond(c, "form_error")
    /\ UNCHANGED <<session, loc, req>>
    /\ Fixed

\* ------------------------------------------------------------------ contact
\* /contact: the feedback INSERT when a message was submitted, no try/except
contact(c, form, fault) ==
    /\ Idle(c)
    /\ Begin(c, "contact")
    /\ IF ~Truthy(form.message)
       THEN Respond(c, "render") /\ NoDb
       ELSE LET st == InsertSt("feedback",
                        [user_name |-> form.name, user_email |-> form.email,
                         subject |-> form.subject, message |-> form.message],
                        QMarks(4))
                o == db_execute(c, st, Commit, fault)
            IN  /\ DbCall(c, st, Commit, o)
                /\ IF o.exc THEN Respond(c, "500")
                   ELSE Goto(c, "contact_log") /\ UNCHANGED resp
    /\ UNCHANGED <<session, loc>>
    /\ Fixed

contact_log(c, fault) ==
    /\ pc[c] = "contact_log"
    /\ log_action(c, NULL, "guest", "Feedback submitted", fault)
    /\ Respond(c, "redirect_contact")
    /\ UNCHANGED <<session, loc, req>>
    /\ Fixed

\* ------------------------------------------------------------------- logout
\* /logout: log_action when the session holds user_id, then session.clear()
logout(c, fault) ==
    /\ Idle(c)
    /\ Begin(c, "logout")
    /\ IF session[c].has_user
       THEN log_action(c, session[c].user_id, "user", "User logged out", fault)
       ELSE NoDb
    /\ session' = [session EXCEPT ![c] = EmptySession]
    /\ Respond(c, "redirect_index")
    /\ UNCHANGED loc
    /\ Fixed

\* /admin/logout: log_action when the session holds admin_id, then session.clear()
admin_logout(c, fault) ==
    /\ Idle(c)
    /\ Begin(c, "admin_logout")
    /\ IF session[c].has_admin
       THEN log_action(c, session[c].admin_id, "admin", "Admin logged out", fault)
       ELSE NoDb
    /\ session' = [session EXCEPT ![c] = EmptySession]
    /\ Respond(c, "redirect_admin_login")
    /\ UNCHANGED loc
    /\ Fixed

\* ------------------------------------------------------------------ profile
\* /profile POST: UPDATE users SET fullname, phone, address of the session's row
profile(c, form, fault) ==
    /\ Idle(c)
    /\ Begin(c, "profile")
    /\ IF ~login_required(c)
       THEN Respond(c, "redirect_login") /\ NoDb
       ELSE LET st == UpdateSt("users", session[c].user_id, [fullname |-> form.name])
                o == db_execute(c, st, Commit, fault)
            IN  /\ DbCall(c, st, Commit, o)
                /\ IF o.exc THEN Respond(c, "500")
                   ELSE Respond(c, "redirect_profile")
    /\ UNCHANGED <<session, loc>>
    /\ Fixed

\* --------------------------------------------------------- password changes
\* the class of the rows a cursor of the call's connection returns under the
\* call's path: RealDictRow (a dict) under the PostgreSQL path, sqlite3.Row
\* from a sqlite3 connection, DictRow from init_db's psycopg2 connection
RowClass(c) ==
    IF app_IS_POSTGRES THEN "RealDictRow"
    ELSE IF get_db(c).kind = "sqlite" THEN "sqlite3.Row" ELSE "DictRow"

\* row.get(...): sqlite3.Row has no get attribute
HasGet(cls) == cls # "sqlite3.Row"

\* the test both handlers make before the UPDATE: the stored hash, when there
\* is one, verifies the current password, and the new password is confirmed
MayChange(stored, form) ==
    /\ ~(stored # None /\ ~check_password_hash(stored, form.current_password))
    /\ form.new_password = form.confirm_password

\* /user_change_password POST: SELECT of the session's users row and the test
user_change_password(c, form, fault) ==
    /\ Idle(c)
    /\ Begin(c, "user_change_password")
    /\ IF ~login_required(c)
       THEN Respond(c, "redirect_login") /\ NoDb /\ UNCHANGED loc
       ELSE LET st == SelIdSt("users", session[c].user_id)
                o == db_execute(c, st, FetchOne, fault)
                stored == IF o.ret.kind = "none" THEN None
                          ELSE o.ret.rows[1].password_hash
            IN  /\ DbCall(c, st, FetchOne, o)
                /\ loc' = [loc EXCEPT ![c].form = <<form>>,
                                      ![c].who = session[c].user_id]
                /\ IF o.exc THEN Respond(c, "500")
                   ELSE IF ~MayChange(stored, form)
                   THEN Respond(c, "form_error")
                   ELSE Goto(c, "user_change_update") /\ UNCHANGED resp
    /\ UNCHANGED session
    /\ Fixed

\* UPDATE users SET password_hash = ? WHERE id = ?, commit=True
user_change_update(c, fault) ==
    /\ pc[c] = "user_change_update"
    /\ LET st == UpdateSt("users", loc[c].who,
                    [password_hash |-> generate_password_hash(loc[c].form[1].new_password)])
           o == db_execute(c, st, Commit, fault)
       IN  /\ DbCall(c, st, Commit, o)
           /\ IF o.exc THEN Respond(c, "500") ELSE Respond(c, "render_ok")
    /\ UNCHANGED <<session, loc, req>>
    /\ Fixed

\* /admin/change-password POST: SELECT of the session's admins row,
\* admin.get("password_hash") and the test
change_password(c, form, fault) ==
    /\ Idle(c)
    /\ Begin(c, "change_password")
    /\ IF ~admin_required(c)
       THEN Respond(c, "redirect_admin_login") /\ NoDb /\ UNCHANGED loc
       ELSE LET st == SelIdSt("admins", session[c].admin_id)
                o == db_execute(c, st, FetchOne, fault)
                stored == IF o.ret.kind = "none" THEN None
                          ELSE o.ret.rows[1].password_hash
            IN  /\ DbCall(c, st, FetchOne, o)
                /\ loc' = [loc EXCEPT ![c].form = <<form>>,
                                      ![c].who = session[c].admin_id]
                /\ IF o.exc THEN Respond(c, "500")
                   ELSE IF o.ret.kind # "none" /\ ~HasGet(RowClass(c))
                   THEN \* AttributeError: 'sqlite3.Row' object has no attribute 'get'
                        Respond(c, "500")
                   ELSE IF ~MayChange(stored, form)
                   THEN Respond(c, "form_error")
                   ELSE Goto(c, "change_update") /\ UNCHANGED resp
    /\ UNCHANGED session
    /\ Fixed

\* UPDATE admins SET password_hash=? WHERE id=?, commit=True
change_update(c, fault) ==
    /\ pc[c] = "change_update"
    /\ LET st == UpdateSt("admins", loc[c].who,
                    [password_hash |-> generate_password_hash(loc[c].form[1].new_password)])
           o == db_execute(c, st, Commit, fault)
       IN  /\ DbCall(c, st, Commit, o)
           /\ IF o.exc THEN Respond(c, "500") ELSE Respond(c, "redirect_admin_profile")
    /\ UNCHANGED <<session, loc, req>>
    /\ Fixed

\* ------------------------------------------------------------ admin_packages
SelAllSt(t) == [op |-> "select_all", table |-> t, sql |-> QMarks(0), nparams |-> 0]

\* /admin/packages: SELECT * FROM packages, fetchall; the rows handed to the
\* template are kept in loc.package
admin_packages(c, fault) ==
    /\ Idle(c)
    /\ Begin(c, "admin_packages")
    /\ IF ~admin_required(c)
       THEN Respond(c, "redirect_admin_login") /\ NoDb /\ UNCHANGED loc
       ELSE LET st == SelAllSt("packages")
                o == db_execute(c, st, FetchAll, fault)
            IN  /\ DbCall(c, st, FetchAll, o)
                /\ IF o.exc THEN Respond(c, "500") /\ UNCHANGED loc
                   ELSE /\ loc' = [loc EXCEPT ![c].package = o.ret.rows]
                        /\ Respond(c, "render")
    /\ UNCHANGED session
    /\ Fixed

\* ------------------------------------------------- db_execute in a request
\* a view function's call of db_execute(sql, params, flags): its first call
\* opens the request, an exception leaves the view (500) and a return lets
\* the view go on to further calls
call_db_execute(c, st, fl, fault) ==
    /\ phase # "import"
    /\ pc[c] \in {"idle", "view"}
    /\ Len(pend[c]) < MaxPend
    /\ Begin(c, "db_execute")
    /\ LET o == db_execute(c, st, fl, fault)
       IN  /\ DbCall(c, st, fl, o)
           /\ IF o.exc THEN Respond(c, "500")
              ELSE Goto(c, "view") /\ UNCHANGED resp
    /\ UNCHANGED <<session, loc>>
    /\ Fixed

\* the view returns its response
view_returns(c) ==
    /\ pc[c] = "view"
    /\ Respond(c, "ok")
    /\ NoDb
    /\ UNCHANGED <<session, loc, req>>
    /\ Fixed

\* ---------------------------------------------------------- specifications
RegForms   == [fullname : Names, email : Emails \cup {""}, password : {"p"}]
LoginForms == [email : Emails, password : Passwords]
AdminRegForms ==
    [fullname : {"Admin"}, email : {"a@x"}, password : {"p"},
     confirm_password : Passwords]
AdminLoginForms == [email : {AdminMail, "a@x"}, password : {"admin123", "p"}]
ProfileForms == [name : Names, email : Emails]
AdminProfileForms == [name : {"Admin", ""}, email : {AdminMail, "a@x"}]
PackageForms ==
    [title : {"T", None}, location : {"L"}, price : {"100"}, days : {"3"},
     status : {"Available"}]
BookForms ==
    [name : Names, email : {"a@x"}, travel_date : {"2026-01-01", ""},
     persons : {"2", "x"}]
PackageIds == 1..MaxPackages

BookRegForms   == [fullname : Names, email : {"a@x"}, password : {"p"}]
BookLoginForms == [email : {"a@x"}, password : Passwords]
BookAdminRegForms ==
    [fullname : Names, email : {AdminMail}, password : {"admin123"},
     confirm_password : {"admin123", "p"}]
BookAdminForms == [email : {AdminMail}, password : {"admin123", "p"}]
BookIds == {1}

User  == "c1"
Admin == "c2"

\* the account handlers: one browser registers and edits users, the other admins
NextAccounts ==
    \/ Startup
    \/ init_db_again
    \/ \E c \in Clients : close_db(c)
    \/ \E c \in Clients : about(c)
    \/ \E f \in RegForms, fault \in WriteFaults : register(User, f, fault)
    \/ \E fault \in WriteFaults : register_log(User, fault)
    \/ \E f \in LoginForms, fault \in ReadFaults : login(User, f, fault)
    \/ \E fault \in WriteFaults : login_log(User, fault)
    \/ \E c \in Clients, f \in ProfileForms, fault \in WriteFaults :
           update_profile(c, f, fault)
    \/ \E f \in AdminRegForms, fault \in WriteFaults : admin_register(Admin, f, fault)
    \/ \E f \in AdminLoginForms, fault \in ReadFaults : admin_login(Admin, f, fault)
    \/ \E fault \in WriteFaults : admin_login_log(Admin, fault)
    \/ \E c \in Clients, f \in AdminProfileForms, fault \in ReadFaults :
           edit_admin_profile(c, f, fault)
    \/ \E fault \in WriteFaults : edit_admin_update(Admin, fault)

SpecAccounts == Init /\ [][NextAccounts]_vars

\* booking against package CRUD: one browser books, the other administers
Next ==
    \/ Startup
    \/ \E c \in Clients : close_db(c)
    \/ \E f \in BookRegForms, fault \in WriteFaults : register(User, f, fault)
    \/ \E fault \in WriteFaults : register_log(User, fault)
    \/ \E f \in BookLoginForms, fault \in ReadFaults : login(User, f, fault)
    \/ \E fault \in WriteFaults : login_log(User, fault)
    \/ \E c \in Clients, pid \in BookIds, f \in BookForms, fault \in ReadFaults :
           book_package(c, pid, f, fault)
    \/ \E fault \in WriteFaults : book_insert(User, fault)
    \/ \E fault \in WriteFaults : book_payment(User, fault)
    \/ \E fault \in WriteFaults : book_update(User, fault)
    \/ \E fault \in WriteFaults : book_log(User, fault)
    \/ \E fault \in ReadFaults : book_user(User, fault)
    \/ \E f \in BookAdminRegForms, fault \in WriteFaults : admin_register(Admin, f, fault)
    \/ \E f \in BookAdminForms, fault \in ReadFaults : admin_login(Admin, f, fault)
    \/ \E fault \in WriteFaults : admin_login_log(Admin, fault)
    \/ \E c \in Clients, f \in PackageForms, fault \in WriteFaults : add_package(c, f, fault)
    \/ \E fault \in WriteFaults : add_package_log(Admin, fault)
    \/ \E c \in Clients, pid \in BookIds, f \in PackageForms, fault \in ReadFaults :
           edit_package(c, pid, f, fault)
    \/ \E fault \in WriteFaults : edit_package_update(Admin, fault)
    \/ \E fault \in WriteFaults : edit_package_log(Admin, fault)
    \/ \E c \in Clients, pid \in BookIds, fault \in ReadFaults : delete_package(c, pid, fault)
    \/ \E fault \in WriteFaults : delete_package_exec(Admin, fault)
    \/ \E fault \in WriteFaults : delete_package_log(Admin, fault)

Spec == Init /\ [][Next]_vars

\* one browser that registers and logs in and out, as user and as admin
Browser == "c1"
SessRegForms == [fullname : Names, email : Emails, password : {"p"}]
SessAdminRegForms ==
    [fullname : {"Admin"}, email : {"a@x"}, password : {"p"}, confirm_password : {"p"}]

NextSession ==
    \/ Startup
    \/ close_db(Browser)
    \/ \E f \in SessRegForms, fault \in WriteFaults : register(Browser, f, fault)
    \/ \E fault \in WriteFaults : register_log(Browser, fault)
    \/ \E f \in LoginForms, fault \in ReadFaults : login(Browser, f, fault)
    \/ \E fault \in WriteFaults : login_log(Browser, fault)
    \/ \E fault \in WriteFaults : logout(Browser, fault)
    \/ \E f \in SessAdminRegForms, fault \in WriteFaults :
           admin_register(Browser, f, fault)
    \/ \E f \in AdminLoginForms, fault \in ReadFaults : admin_login(Browser, f, fault)
    \/ \E fault \in WriteFaults : admin_login_log(Browser, fault)
    \/ \E fault \in WriteFaults : admin_logout(Browser, fault)

SpecSession == Init /\ [][NextSession]_vars

\* the two password forms, each behind its login
PwForms ==
    [current_password : {"p", "admin123"}, new_password : {"q"},
     confirm_password : {"q", "p"}]
PwAdminForms == {[email |-> AdminMail, password |-> "admin123"],
                 [email |-> AdminMail, password |-> "q"],
                 [email |-> "a@x", password |-> "p"],
                 [email |-> "a@x", password |-> "q"]}

NextPasswords ==
    \/ Startup
    \/ close_db(Browser)
    \/ \E f \in BookRegForms, fault \in WriteFaults : register(Browser, f, fault)
    \/ \E fault \in WriteFaults : register_log(Browser, fault)
    \/ \E f \in BookLoginForms, fault \in ReadFaults : login(Browser, f, fault)
    \/ \E fault \in WriteFaults : login_log(Browser, fault)
    \/ \E f \in PwForms, fault \in ReadFaults : user_change_password(Browser, f, fault)
    \/ \E fault \in WriteFaults : user_change_update(Browser, fault)
    \/ \E f \in SessAdminRegForms, fault \in WriteFaults :
           admin_register(Browser, f, fault)
    \/ \E f \in PwAdminForms, fault \in ReadFaults : admin_login(Browser, f, fault)
    \/ \E fault \in WriteFaults : admin_login_log(Browser, fault)
    \/ \E f \in PwForms, fault \in ReadFaults : change_password(Browser, f, fault)
    \/ \E fault \in WriteFaults : change_update(Browser, fault)

SpecPasswords == Init /\ [][NextPasswords]_vars

\* one browser that creates rows in every table and edits and deletes packages
RowsBookForms ==
    [name : Names, email : {"a@x"}, travel_date : {"2026-01-01"}, persons : {"2"}]
RowsPackageForms ==
    [title : {"T"}, location : {"L"}, price : {"100"}, days : {"3"},
     status : {"Available"}]
RowsAdminForms == {[email |-> AdminMail, password |-> "admin123"],
                   [email |-> "a@x", password |-> "p"]}
ContactForms ==
    [name : Names, email : {"a@x"}, subject : {"s"}, message : {"hi", ""}]
RowsIds == {1, 2}

NextRows ==
    \/ Startup
    \/ init_db_again
    \/ close_db(Browser)
    \/ \E f \in BookRegForms, fault \in WriteFaults : register(Browser, f, fault)
    \/ \E fault \in WriteFaults : register_log(Browser, fault)
    \/ \E f \in BookLoginForms, fault \in ReadFaults : login(Browser, f, fault)
    \/ \E fault \in WriteFaults : login_log(Browser, fault)
    \/ \E f \in SessAdminRegForms, fault \in WriteFaults :
           admin_register(Browser, f, fault)
    \/ \E f \in RowsAdminForms, fault \in ReadFaults : admin_login(Browser, f, fault)
    \/ \E fault \in WriteFaults : admin_login_log(Browser, fault)
    \/ \E f \in ContactForms, fault \in WriteFaults : contact(Browser, f, fault)
    \/ \E fault \in WriteFaults : contact_log(Browser, fault)
    \/ \E pid \in BookIds, f \in RowsBookForms, fault \in ReadFaults :
           book_package(Browser, pid, f, fault)
    \/ \E fault \in WriteFaults : book_insert(Browser, fault)
    \/ \E fault \in WriteFaults : book_payment(Browser, fault)
    \/ \E fault \in WriteFaults : book_update(Browser, fault)
    \/ \E fault \in WriteFaults : book_log(Browser, fault)
    \/ \E fault \in ReadFaults : book_user(Browser, fault)
    \/ \E f \in RowsPackageForms, fault \in WriteFaults : add_package(Browser, f, fault)
    \/ \E fault \in WriteFaults : add_package_log(Browser, fault)
    \/ \E pid \in RowsIds, f \in RowsPackageForms, fault \in ReadFaults :
           edit_package(Browser, pid, f, fault)
    \/ \E fault \in WriteFaults : edit_package_update(Browser, fault)
    \/ \E fault \in WriteFaults : edit_package_log(Browser, fault)
    \/ \E pid \in RowsIds, fault \in ReadFaults : delete_package(Browser, pid, fault)
    \/ \E fault \in WriteFaults : delete_package_exec(Browser, fault)
    \/ \E fault \in WriteFaults : delete_package_log(Browser, fault)

SpecRows == Init /\ [][NextRows]_vars

\* one browser whose requests call db_execute with any flags
CommitSts ==
    {InsertSt("users", [fullname |-> "n", email |-> e,
                        password_hash |-> generate_password_hash("p")],
              QMarks(3)) : e \in Emails}
    \cup {UpdateSt("users", 1, [fullname |-> "m"]), DeleteSt("users", 1),
          SelAllSt("users")}
CommitFlags ==
    {Flags(a, b, k, d) : a \in BOOLEAN, b \in BOOLEAN, k \in BOOLEAN, d \in BOOLEAN}

NextCommit ==
    \/ Startup
    \/ close_db(Browser)
    \/ \E st \in CommitSts, fl \in CommitFlags, fault \in Faults :
           call_db_execute(Browser, st, fl, fault)
    \/ view_returns(Browser)

SpecCommit == Init /\ [][NextCommit]_vars

\* one browser on every protected page, with and without a login before
NoFault == {"none"}
GuardRegForm == [fullname |-> "n", email |-> "a@x", password |-> "p"]
GuardLoginForms == [email : {"a@x"}, password : Passwords]
GuardAdminRegForm ==
    [fullname |-> "Admin", email |-> "a@x", password |-> "p",
     confirm_password |-> "p"]
GuardAdminForms == [email : {AdminMail, "a@x"}, password : {"admin123", "p"}]
GuardProfileForm == [name |-> "m", email |-> "a@x"]
GuardAdminProfileForm == [name |-> "Boss", email |-> AdminMail]
GuardPackageForm ==
    [title |-> "T", location |-> "L", price |-> "100", days |-> "3",
     status |-> "Available"]
GuardBookForm ==
    [name |-> "n", email |-> "a@x", travel_date |-> "2026-01-01", persons |-> "2"]
GuardPwForm ==
    [current_password |-> "p", new_password |-> "p", confirm_password |-> "p"]
GuardAdminPwForms ==
    {[current_password |-> w, new_password |-> w, confirm_password |-> w] :
        w \in {"admin123", "p"}}

NextGuard ==
    \/ Startup
    \/ close_db(Browser)
    \/ \E fault \in NoFault : register(Browser, GuardRegForm, fault)
    \/ \E fault \in NoFault : register_log(Browser, fault)
    \/ \E f \in GuardLoginForms, fault \in NoFault : login(Browser, f, fault)
    \/ \E fault \in NoFault : login_log(Browser, fault)
    \/ \E fault \in NoFault : admin_register(Browser, GuardAdminRegForm, fault)
    \/ \E f \in GuardAdminForms, fault \in NoFault : admin_login(Browser, f, fault)
    \/ \E fault \in NoFault : admin_login_log(Browser, fault)
    \/ \E fault \in NoFault : update_profile(Browser, GuardProfileForm, fault)
    \/ \E fault \in NoFault : profile(Browser, GuardProfileForm, fault)
    \/ \E fault \in NoFault : user_change_password(Browser, GuardPwForm, fault)
    \/ \E fault \in NoFault : user_change_update(Browser, fault)
    \/ \E fault \in NoFault : book_package(Browser, 1, GuardBookForm, fault)
    \/ \E fault \in NoFault : book_insert(Browser, fault)
    \/ \E fault \in WriteFaults : book_payment(Browser, fault)
    \/ \E fault \in NoFault : book_update(Browser, fault)
    \/ \E fault \in NoFault : book_log(Browser, fault)
    \/ \E fault \in NoFault : book_user(Browser, fault)
    \/ \E fault \in NoFault :
           edit_admin_profile(Browser, GuardAdminProfileForm, fault)
    \/ \E fault \in NoFault : edit_admin_update(Browser, fault)
    \/ \E f \in GuardAdminPwForms, fault \in NoFault :
           change_password(Browser, f, fault)
    \/ \E fault \in NoFault : change_update(Browser, fault)
    \/ \E fault \in NoFault : add_package(Browser, GuardPackageForm, fault)
    \/ \E fault \in NoFault : add_package_log(Browser, fault)
    \/ \E pid \in BookIds, fault \in NoFault :
           edit_package(Browser, pid, GuardPackageForm, fault)
    \/ \E fault \in NoFault : edit_package_update(Browser, fault)
    \/ \E fault \in NoFault : edit_package_log(Browser, fault)
    \/ \E pid \in BookIds, fault \in NoFault : delete_package(Browser, pid, fault)
    \/ \E fault \in NoFault : delete_package_exec(Browser, fault)
    \/ \E fault \in NoFault : delete_package_log(Browser, fault)

SpecGuard == Init /\ [][NextGuard]_vars

\* one admin's browser on the package pages
CrudForms ==
    [title : {"T", "U"}, location : {"L"}, price : {"100"}, days : {"3"},
     status : {"Available"}]

NextPackages ==
    \/ Startup
    \/ init_db_again
    \/ close_db(Browser)
    \/ \E f \in SessAdminRegForms, fault \in WriteFaults :
           admin_register(Browser, f, fault)
    \/ \E f \in RowsAdminForms, fault \in ReadFaults : admin_login(Browser, f, fault)
    \/ \E fault \in WriteFaults : admin_login_log(Browser, fault)
    \/ \E f \in CrudForms, fault \in WriteFaults : add_package(Browser, f, fault)
    \/ \E fault \in WriteFaults : add_package_log(Browser, fault)
    \/ \E pid \in PackageIds, f \in CrudForms, fault \in ReadFaults :
           edit_package(Browser, pid, f, fault)
    \/ \E fault \in WriteFaults : edit_package_update(Browser, fault)
    \/ \E fault \in WriteFaults : edit_package_log(Browser, fault)
    \/ \E pid \in PackageIds, fault \in ReadFaults : delete_package(Browser, pid, fault)
    \/ \E fault \in WriteFaults : delete_package_exec(Browser, fault)
    \/ \E fault \in WriteFaults : delete_package_log(Browser, fault)
    \/ \E fault \in ReadFaults : admin_packages(Browser, fault)

SpecPackages == Init /\ [][NextPackages]_vars

\* ------------------------------------------------- placeholder rewriting
\* every template over Chars of at most MaxLen characters
Templates == UNION {[1..n -> Chars] : n \in 0..MaxLen}

InitAdapt ==
    /\ env \in Envs
    /\ db = EmptyDb
    /\ tq \in {[sql |-> t, pg |-> FALSE, out |-> <<>>, done |-> FALSE] : t \in Templates}
    /\ probe = NoProbe
    /\ InitCommon

\* one call _adapt_placeholders(sql) under the process's IS_POSTGRES
adapt_template ==
    /\ ~tq.done
    /\ tq' = [tq EXCEPT !.pg = app_IS_POSTGRES, !.out = _adapt_placeholders(tq.sql),
                        !.done = TRUE]
    /\ UNCHANGED <<env, phase, initOk, db, session, pc, req, loc, g, pend, conns,
                   nopen, cursors, call, resp, probe>>

NextAdapt == adapt_template
SpecAdapt == InitAdapt /\ [][NextAdapt]_vars

\* ------------------------------------------- the two paths of db_execute
ProbeUser == [id |-> 1, fullname |-> "n", email |-> "a@x",
              password_hash |-> generate_password_hash("p")]

\* the same contents behind either backend: the eight tables, users empty or
\* holding one row
ProbeDbs ==
    {[ProvisionedDb EXCEPT !.serial = FALSE, !.users = rows] :
        rows \in {<<>>, <<ProbeUser>>}}

ProbeSts ==
    {SelIdSt("users", id) : id \in {1, 2}}
    \cup {SelEmailSt("users", e) : e \in Emails}
    \cup {[op |-> "select_all", table |-> "users", sql |-> QMarks(0), nparams |-> 0]}
    \cup {InsertSt("users", [fullname |-> "n", email |-> e,
                             password_hash |-> generate_password_hash("p")],
                   QMarks(3)) : e \in Emails}
    \cup {UpdateSt("users", id, [fullname |-> "m"]) : id \in {1, 2}}
    \cup {DeleteSt("users", id) : id \in {1, 2}}

ProbeFlags ==
    {Flags(a, b, c, d) : a \in BOOLEAN, b \in BOOLEAN, c \in BOOLEAN, d \in BOOLEAN}

NoOutcome == [exc |-> FALSE, why |-> "none", ret |-> RetNone]

InitPaths ==
    /\ env = [DATABASE_URL |-> FALSE, DATABASE_PUBLIC_URL |-> FALSE,
              reachable |-> FALSE, provisioned |-> FALSE]
    /\ db \in ProbeDbs
    /\ tq = NoTq
    /\ probe \in {[done |-> FALSE, st |-> st, fl |-> fl, fault |-> fault,
                   pg |-> NoOutcome, sqlite |-> NoOutcome] :
                      st \in ProbeSts, fl \in ProbeFlags, fault \in Faults}
    /\ InitCommon

\* the statement of the probe run by db_execute's PostgreSQL path on a
\* psycopg2 connection and by its SQLite path on a sqlite3 connection, each
\* with the template _adapt_placeholders gives that backend
probe_paths ==
    /\ ~probe.done
    /\ LET st == probe.st
           a == pg_path("pg", db, <<>>, st, adapt(st.sql, TRUE), probe.fl, probe.fault)
           b == sqlite_path("sqlite", db, <<>>, st, adapt(st.sql, FALSE), probe.fl,
                            probe.fault)
       IN  probe' = [probe EXCEPT !.done = TRUE,
                        !.pg = [exc |-> a.exc, why |-> a.why, ret |-> a.ret],
                        !.sqlite = [exc |-> b.exc, why |-> b.why, ret |-> b.ret]]
    /\ UNCHANGED <<env, phase, initOk, db, session, pc, req, loc, g, pend, conns,
                   nopen, cursors, call, resp, tq>>

NextPaths == probe_paths
SpecPaths == InitPaths /\ [][NextPaths]_vars

\* ------------------------------------------------------------------ claims
HasId(rows, id) == \E i \in 1..Len(rows) : rows[i].id = id

\* C1: every bookings row has a package_id that is the id of a packages row
\* and a user_id that is the id of a users row
C1_BookingsReferenceExisting ==
    \A i \in 1..Len(db.bookings) :
        /\ HasId(db.packages, db.bookings[i].package_id)
        /\ HasId(db.users, db.bookings[i].user_id)

PaymentsOf(booking) ==
    {j \in 1..Len(db.payments) :
        /\ db.payments[j].booking_id = booking.id
        /\ db.payments[j].user_id = booking.user_id}

\* C2: when a book_package request has finished, the booking it committed
\* has exactly one payment with its booking_id and user_id
C2_FinishedBookingHasPayment ==
    \A c \in Clients :
        (pc[c] = "teardown" /\ req[c].h = "book_package") =>
            \A i \in 1..Len(db.bookings) :
                db.bookings[i].id = loc[c].booking_id =>
                    Cardinality(PaymentsOf(db.bookings[i])) = 1

PaymentsSuccess ==
    \A j \in 1..Len(db.payments) : db.payments[j].payment_status = "SUCCESS"
PaymentsKept ==
    \A j \in 1..Len(db.payments) :
        j <= Len(db'.payments) /\ db'.payments[j] = db.payments[j]

\* C3: every payments row has payment_status "SUCCESS" from its insertion
\* on, and no step changes a row of payments
C3_PaymentStatusFixed == []PaymentsSuccess /\ [][PaymentsKept]_vars
C3_Witness == Len(db.payments) > 0

UniqueEmails ==
    /\ \A i, j \in 1..Len(db.users) : i # j => db.users[i].email # db.users[j].email
    /\ \A i, j \in 1..Len(db.admins) : i # j => db.admins[i].email # db.admins[j].email
DuplicateRefused ==
    \A c \in Clients :
        (pc'[c] # pc[c] /\ call'[c].why = "unique") =>
            (db'.users = db.users /\ db'.admins = db.admins)

\* C4: no two users rows and no two admins rows share an email, and a
\* statement that would create a duplicate leaves both tables as they were
C4_EmailsUnique == []UniqueEmails /\ [][DuplicateRefused]_vars
C4_Witness ==
    /\ \E c \in Clients : call[c].why = "unique" /\ req[c].h = "update_profile"
    /\ Len(db.users) = 2

\* C5: the branch db_execute takes is the one of the backend its connection
\* belongs to
C5_BranchMatchesConnection ==
    \A c \in Clients : call[c].made => call[c].branch = call[c].conn

OwnedBy(c) == {k \in conns : k.owner = c}

\* C6: a request opens at most one connection, on its first database call
\* and not before, every later call uses it, and none is open once the
\* request is torn down
C6_OneConnectionPerRequest ==
    \A c \in Clients :
        /\ nopen[c] <= 1
        /\ Cardinality(OwnedBy(c)) = nopen[c]
        /\ (nopen[c] = 1) = call[c].made
        /\ call[c].made => (g[c].n = 1 /\ [owner |-> c, n |-> 1, kind |-> g[c].kind] \in conns)
        /\ ~call[c].made => g[c] = NoConn
        /\ pc[c] = "idle" => (OwnedBy(c) = {} /\ g[c] = NoConn)
C6_Witness ==
    /\ \E c \in Clients : pc[c] = "teardown" /\ req[c].h = "edit_admin_profile"
                          /\ resp[c] = "redirect_admin_profile" /\ nopen[c] = 1
    /\ \E c \in Clients : pc[c] = "teardown" /\ req[c].h = "about" /\ nopen[c] = 0

FailedCallRolledBack ==
    \A c \in Clients :
        (call[c].exc /\ call[c].why # "cursor") =>
            (call[c].rolled /\ cursors[c] = 0 /\ pend[c] = <<>>)
FailedCallKeepsDb ==
    \A c \in Clients :
        (pc'[c] # pc[c] /\ call'[c].exc) => db' = db

\* C7: a db_execute whose statement (or commit) fails rolls the transaction
\* back, closes the cursor and raises; the committed contents are unchanged
\* and nothing uncommitted is left
C7_FailureRollsBack == []FailedCallRolledBack /\ [][FailedCallKeepsDb]_vars
C7_Witness ==
    /\ \E c \in Clients : call[c].exc /\ call[c].why = "commit" /\ call[c].write
                          /\ call[c].branch = "sqlite" /\ req[c].h = "book_package"
    /\ Len(db.bookings) = 1

\* the result kinds the flags allow, return_lastrowid before fetchone before
\* fetchall
FlagKinds(fl) ==
    IF fl.return_lastrowid THEN {"id"}
    ELSE IF fl.fetchone THEN {"row", "none"}
    ELSE IF fl.fetchall THEN {"rows"}
    ELSE {"none"}

Shifted(sql, i) == i + CountQ(SubSeq(sql, 1, i - 1))

\* C9: under the networked backend _adapt_placeholders turns every "?" into
\* "%s" at its place and keeps every other character, in order; under the
\* embedded backend the template comes back unchanged; the placeholders of
\* the rewritten template are as many as those of the original, and a
\* template in the "?" convention binds the same number of parameters on
\* both backends
C9_PlaceholdersRewritten ==
    tq.done =>
        IF tq.pg
        THEN /\ CountQ(tq.out) = 0
             /\ Len(tq.out) = Len(tq.sql) + CountQ(tq.sql)
             /\ CountFmt(tq.out) = CountQ(tq.sql) + CountFmt(tq.sql)
             /\ \A i \in 1..Len(tq.sql) :
                    LET j == Shifted(tq.sql, i)
                    IN  IF tq.sql[i] = "?"
                        THEN tq.out[j] = "%" /\ tq.out[j + 1] = "s"
                        ELSE tq.out[j] = tq.sql[i]
             /\ CountPct(tq.sql) = 0 =>
                    \A n \in 0..MaxLen :
                        Binds("pg", tq.out, n) = Binds("sqlite", tq.sql, n)
        ELSE tq.out = tq.sql
C9_Witness ==
    /\ tq.done /\ tq.pg
    /\ CountQ(tq.sql) >= 2
    /\ tq.out # tq.sql
    /\ \E i \in 2..Len(tq.sql) : tq.sql[i] = "x" /\ Shifted(tq.sql, i) > i

Ids(rows) == {rows[i].id : i \in 1..Len(rows)}
RowsStay(t) ==
    \A i \in 1..Len(db[t]) : i <= Len(db'[t]) /\ db'[t][i].id = db[t][i].id
PackageGone ==
    Len(db'.packages) < Len(db.packages) \/ Ids(db.packages) \ Ids(db'.packages) # {}
DeletedByHandler ==
    \E c \in Clients :
        /\ pc[c] = "delete_package_exec" /\ pc'[c] = "delete_package_log"
        /\ Ids(db.packages) \ Ids(db'.packages) = {loc[c].package[1].id}
        /\ Len(db'.packages) = Len(db.packages) - 1
        /\ \A i \in 1..Len(db.packages) :
               db.packages[i].id # loc[c].package[1].id =>
                   \E j \in 1..Len(db'.packages) : db'.packages[j] = db.packages[i]

\* C11: no step removes a row of users, admins, bookings, payments, feedback,
\* admin_activity or cloud_activity; a packages row disappears only in
\* delete_package's DELETE, and then only the row with the id of the request
C11_OnlyDeletePackageRemoves ==
    [][/\ \A t \in TableNames \ {"packages"} : RowsStay(t)
       /\ PackageGone => DeletedByHandler]_vars
C11_Witness ==
    /\ \E c \in Clients : /\ pc[c] = "delete_package_log"
                          /\ ~HasId(db.packages, loc[c].package[1].id)
    /\ Len(db.packages) >= 2
    /\ db.bookings # <<>> /\ db.feedback # <<>> /\ db.users # <<>>

LogTables == {"admin_activity", "cloud_activity"}
LogSteps == {"register_log", "login_log", "admin_login_log", "contact_log",
             "book_log", "add_package_log", "edit_package_log",
             "delete_package_log"}
LogKept(t) ==
    /\ Len(db'[t]) \in {Len(db[t]), Len(db[t]) + 1}
    /\ \A i \in 1..Len(db[t]) : db'[t][i] = db[t][i]
LogGrows(t) == Len(db'[t]) > Len(db[t])
NewLogRow(t) == db'[t][Len(db'[t])]

Registered(f) ==
    {i \in 1..Len(db.users) :
        /\ db.users[i].email = f.email
        /\ check_password_hash(db.users[i].password_hash, f.password)}
LoginStep(c) == pc[c] = "idle" /\ pc'[c] # "idle" /\ req'[c].h = "login"

\* C13: a login with the email and password of a registered user, the
\* database answering, leaves the session holding the id of exactly the row
\* the registration created; a login with any other email or password gives
\* the session no user_id
C13_RegisterLoginRoundTrip ==
    [][\A c \in Clients : LoginStep(c) =>
           LET f == loc'[c].form[1] IN
           IF Registered(f) # {}
           THEN ~call'[c].exc =>
                    /\ session'[c].has_user
                    /\ \A i \in Registered(f) : session'[c].user_id = db.users[i].id
                    /\ Cardinality({i \in 1..Len(db.users) :
                                       db.users[i].id = session'[c].user_id}) = 1
                    /\ session'[c].user_id # NULL
           ELSE session'[c].has_user => session[c].has_user]_vars

PackageFields(form) ==
    [title |-> form.title, location |-> form.location,
     price |-> float(form.price), days |-> form.days, status |-> form.status]
ShowsFields(row, form) ==
    \A col \in DOMAIN PackageFields(form) : row[col] = PackageFields(form)[col]
Listed(c) ==
    pc[c] = "idle" /\ req'[c].h = "admin_packages" /\ resp'[c] = "render"
Added(c) == pc[c] = "idle" /\ pc'[c] = "add_package_log"
Edited(c) == pc[c] = "edit_package_update" /\ pc'[c] = "edit_package_log"
Deleted(c) == pc[c] = "delete_package_exec" /\ pc'[c] = "delete_package_log"
Looked(c) ==
    /\ pc[c] = "idle" /\ pc'[c] # "idle"
    /\ req'[c].h \in {"edit_package", "delete_package"}
    /\ admin_required(c) /\ ~call'[c].exc

\* C14: the admin_packages listing is the packages table; a successful
\* add_package appends a package with the submitted fields and keeps the
\* others, a successful edit_package(pid) gives pid the submitted fields and
\* changes no other package, a successful delete_package(pid) leaves no
\* package pid and keeps the others; edit_package and delete_package answer
\* 404 exactly when no package has the id, and then change nothing
C14_CrudReflectedInListing ==
    [][\A c \in Clients :
        /\ Listed(c) => loc'[c].package = db'.packages /\ db' = db
        /\ Added(c) =>
              /\ Len(db'.packages) = Len(db.packages) + 1
              /\ SubSeq(db'.packages, 1, Len(db.packages)) = db.packages
              /\ ShowsFields(db'.packages[Len(db'.packages)],
                             [loc'[c].form[1] EXCEPT !.status = "Available"])
              /\ db'.packages[Len(db'.packages)].id \notin Ids(db.packages) \cup {NULL}
        /\ Edited(c) =>
              /\ HasId(db'.packages, req[c].pid)
              /\ Len(db'.packages) = Len(db.packages)
              /\ \A i \in 1..Len(db.packages) :
                    IF db.packages[i].id = req[c].pid
                    THEN /\ ShowsFields(db'.packages[i], loc[c].form[1])
                         /\ db'.packages[i].id = req[c].pid
                    ELSE db'.packages[i] = db.packages[i]
        /\ Deleted(c) =>
              /\ ~HasId(db'.packages, req[c].pid)
              /\ db'.packages =
                    SelectSeq(db.packages, LAMBDA r : r.id # req[c].pid)
        /\ Looked(c) =>
              /\ resp'[c] = "404" <=> ~HasId(db.packages, req'[c].pid)
              /\ resp'[c] = "404" => db' = db /\ session' = session]_vars
\* an edit of one of two packages, with other values than it had
C14_Witness ==
    \E c \in Clients :
        /\ pc[c] = "edit_package_log"
        /\ Len(db.packages) >= 2
        /\ \E i \in 1..Len(db.packages) :
              /\ db.packages[i].id = req[c].pid
              /\ db.packages[i].title = "U"
        /\ \E i \in 1..Len(db.packages) : db.packages[i].title # "U"

AdminsWith(email) == {i \in 1..Len(db.admins) : db.admins[i].email = email}

\* C10: when init_db has completed at start-up all eight tables, exactly
\* one admin admin@demo.com and at least one package exist, and no handler
\* runs against a database in which one of the tables is missing
C10_InitDbEstablishesSchema ==
    /\ (phase = "started" /\ initOk) =>
          /\ db.tables = TableNames
          /\ Cardinality(AdminsWith(AdminMail)) = 1
          /\ db.packages # <<>>
    /\ \A c \in Clients : pc[c] # "idle" => db.tables = TableNames
\* init_db has run a second time while the app serves
Rerun == phase = "serving" /\ pc' = pc /\ db' # db
IsPrefix(a, b) == Len(a) <= Len(b) /\ SubSeq(b, 1, Len(a)) = a
Idempotent == init_db(init_db(db).db).db = init_db(db).db

\* C15: init_db applied twice leaves the database init_db applied once
\* leaves; a later run of init_db modifies and removes no row, adds the
\* default admin only when no admin has the email admin@demo.com and the
\* demo packages only when the packages table is empty
C15_InitDbIdempotent ==
    /\ []Idempotent
    /\ [][Rerun =>
            /\ \A t \in TableNames : IsPrefix(db[t], db'[t])
            /\ \A t \in TableNames \ {"admins", "packages"} : db'[t] = db[t]
            /\ db'.admins # db.admins =>
                  /\ AdminsWith(AdminMail) = {}
                  /\ Len(db'.admins) = Len(db.admins) + 1
                  /\ db'.admins[Len(db'.admins)].email = AdminMail
            /\ db'.packages # db.packages =>
                  /\ db.packages = <<>>
                  /\ Len(db'.packages) = Len(DemoPackages)]_vars
\* init_db has run again after the admin deleted every package: the demo
\* packages are back under new ids, next to the default admin and a
\* registered one, and a further run changes nothing
C15_Witness ==
    /\ phase = "serving"
    /\ AdminsWith(AdminMail) # {}
    /\ Len(db.admins) = 2
    /\ Len(db.packages) = Len(DemoPackages)
    /\ db.packages[1].title = DemoPackages[1].title
    /\ db.packages[1].id > Len(DemoPackages)
    /\ init_db(db).ok /\ init_db(db).db = db

\* a step that is one call of db_execute by client c
Called(c) ==
    /\ pc[c] \in {"idle", "view"} /\ req'[c].h = "db_execute"
    /\ pc'[c] = "view" \/ resp'[c] = "500"
\* cur.execute returned: the call returned, or raised later, in the fetch
\* or in the commit
StatementSucceeded(k) == ~k.exc \/ k.why \in {"fetch", "commit"}
\* db.commit() was called: it committed, or it raised
CommitCalled(k) == k.committed \/ (k.exc /\ k.why = "commit")

AccountWriteFailed(c) ==
    /\ pc[c] = "idle" /\ req'[c].h \in {"register", "admin_register"}
    /\ call'[c].made /\ call'[c].exc
BookWrites == {"book_insert", "book_payment", "book_update"}
\* one of book_package's writes has raised in this step
BookWriteFailed(c) ==
    pc[c] \in BookWrites /\ pc'[c] # pc[c] /\ call'[c].exc

UserOnly == {"book_package", "update_profile", "profile", "user_change_password"}
AdminOnly == {"add_package", "edit_package", "delete_package",
              "edit_admin_profile", "change_password"}
Protected == UserOnly \cup AdminOnly
HoldsMarker(c, h) ==
    IF h \in AdminOnly THEN session[c].has_admin ELSE session[c].has_user
LoginPage(h) == IF h \in AdminOnly THEN "redirect_admin_login" ELSE "redirect_login"
\* the body of a protected handler is running, or has called the database
BodyRuns(c) ==
    req[c].h \in Protected /\ (pc[c] \notin {"idle", "teardown"} \/ call[c].made)
\* the row whose password the form of the login just made verifies against
Verified(rows, f, id) ==
    \E i \in 1..Len(rows) :
        /\ rows[i].email = f.email
        /\ check_password_hash(rows[i].password_hash, f.password)
        /\ rows[i].id = id

\* C18: the body of a protected handler runs, and its statements reach the
\* database, only in a session that holds the handler's marker; a request
\* without it is redirected to the login page and changes nothing in the
\* database; a session receives user_id or admin_id only in login or
\* admin_login, from a row whose stored hash the submitted password verifies
C18_ProtectedNeedMarker ==
    /\ [](\A c \in Clients : BodyRuns(c) => HoldsMarker(c, req[c].h))
    /\ [][\A c \in Clients :
            /\ ( /\ pc[c] = "idle" /\ pc'[c] # "idle"
                 /\ req'[c].h \in Protected
                 /\ ~HoldsMarker(c, req'[c].h) ) =>
                  /\ pc'[c] = "teardown" /\ resp'[c] = LoginPage(req'[c].h)
                  /\ db' = db /\ ~call'[c].made /\ session' = session
            /\ (session'[c] # session[c] /\ session'[c].has_user) =>
                  /\ req'[c].h = "login"
                  /\ Verified(db.users, loc'[c].form[1], session'[c].user_id)
            /\ (session'[c] # session[c] /\ session'[c].has_admin) =>
                  /\ req'[c].h = "admin_login"
                  /\ Verified(db.admins, loc'[c].form[1], session'[c].admin_id)]_vars
\* a logged-in user, whose profile update went through, asked for an admin
\* page and was sent to the admin login
C18_Witness ==
    \E c \in Clients :
        /\ session[c].has_user /\ ~session[c].has_admin
        /\ pc[c] = "teardown" /\ req[c].h = "add_package"
        /\ resp[c] = "redirect_admin_login"
        /\ \E i \in 1..Len(db.users) : db.users[i].fullname = "m"
        /\ db.bookings # <<>>

\* a login or admin_login that has set its marker in this step
LoggedIn(c) ==
    /\ pc[c] = "idle" /\ req'[c].h \in {"login", "admin_login"}
    /\ pc'[c] \in {"login_log", "admin_login_log"}
LoggedOut(c) ==
    pc[c] = "idle" /\ pc'[c] # "idle" /\ req'[c].h \in {"logout", "admin_logout"}

\* C19: no session holds user_id and admin_id at once: a successful login
\* leaves in the session its own marker and name and nothing else, and
\* logout and admin_logout leave the session empty
C19_OneMarkerAtMost ==
    /\ [](\A c \in Clients : ~(session[c].has_user /\ session[c].has_admin))
    /\ [][\A c \in Clients :
            /\ LoggedIn(c) =>
                  IF req'[c].h = "login"
                  THEN session'[c] =
                          [EmptySession EXCEPT !.has_user = TRUE,
                              !.user_id = session'[c].user_id,
                              !.user_name = session'[c].user_name]
                  ELSE session'[c] =
                          [EmptySession EXCEPT !.has_admin = TRUE,
                              !.admin_id = session'[c].admin_id,
                              !.admin_name = session'[c].admin_name]
            /\ LoggedOut(c) => session'[c] = EmptySession]_vars
\* an admin login in the browser that had logged in as a user before
C19_Witness ==
    \E c \in Clients :
        /\ pc[c] = "admin_login_log"
        /\ session[c].has_admin /\ ~session[c].has_user
        /\ \E i \in 1..Len(db.cloud_activity) : db.cloud_activity[i].role = "user"

PwTable(h) == IF h = "change_password" THEN "admins" ELSE "users"
PwUpdate(h) == IF h = "change_password" THEN "change_update" ELSE "user_change_update"
PwHandlers == {"user_change_password", "change_password"}
\* the password form of client c's request verifies against hash stored and
\* confirms its new password
FormPasses(c, stored) ==
    LET f == loc'[c].form[1] IN
    /\ check_password_hash(stored, f.current_password)
    /\ f.new_password = f.confirm_password
\* the SELECT of a password handler has returned the session's row
PwRowRead(c) ==
    /\ pc[c] = "idle" /\ pc'[c] # "idle" /\ req'[c].h \in PwHandlers
    /\ call'[c].made /\ ~call'[c].exc /\ call'[c].kind = "row"
\* row i of table t has another password hash after the step
HashReplaced(t, i) ==
    /\ i <= Len(db'[t])
    /\ db'[t][i].id = db[t][i].id
    /\ db'[t][i].password_hash # db[t][i].password_hash

\* C20: a stored password hash is replaced only by the UPDATE of
\* user_change_password or change_password, for the session's own row, after
\* a form whose current password verifies against the stored hash and whose
\* new password equals its confirmation, and it becomes the hash of the new
\* password; on either backend such a form, and only such a form, takes the
\* handler to its UPDATE, and any other form gets the error message
C20_PasswordChangeVerified ==
    [][/\ \A t \in {"users", "admins"} : \A i \in 1..Len(db[t]) :
            HashReplaced(t, i) =>
                \E c \in Clients :
                    /\ req[c].h \in PwHandlers /\ PwTable(req[c].h) = t
                    /\ pc[c] = PwUpdate(req[c].h) /\ pc'[c] = "teardown"
                    /\ db[t][i].id = loc[c].who
                    /\ check_password_hash(db[t][i].password_hash,
                                           loc[c].form[1].current_password)
                    /\ loc[c].form[1].new_password = loc[c].form[1].confirm_password
                    /\ db'[t][i].password_hash =
                          generate_password_hash(loc[c].form[1].new_password)
       /\ \A c \in Clients : PwRowRead(c) =>
            \A i \in 1..Len(db[PwTable(req'[c].h)]) :
                LET row == db[PwTable(req'[c].h)][i] IN
                row.id = loc'[c].who =>
                    IF FormPasses(c, row.password_hash)
                    THEN pc'[c] = PwUpdate(req'[c].h)
                    ELSE pc'[c] = "teardown" /\ resp'[c] = "form_error"]_vars

\* a booking form with every field and a persons value int() accepts
BookFormValid(f) ==
    /\ Truthy(f.name) /\ Truthy(f.email) /\ Truthy(f.travel_date)
    /\ Truthy(f.persons) /\ IsNumeric(f.persons)
\* book_package has read its package in this step
BookStarted(c) ==
    /\ pc[c] = "idle" /\ req'[c].h = "book_package"
    /\ pc'[c] \in {"book_insert", "book_user"}
Grows(t) == Len(db'[t]) > Len(db[t])
BookingsOf(p) == {i \in 1..Len(db'.bookings) : db'.bookings[i].id = p.booking_id}

\* C21: the payment book_package creates references one booking, and its
\* amount is the price of the package as the request read it at its start
\* times the persons of that booking; a request whose form lacks a field or
\* whose persons value is no integer goes to the page again and creates no
\* booking and no payment: only a request with a valid form adds a row to
\* bookings or payments
C21_PaymentAmount ==
    [][/\ \A c \in Clients : BookStarted(c) =>
            IF BookFormValid(loc'[c].form[1])
            THEN pc'[c] = "book_insert" /\ db' = db
            ELSE pc'[c] = "book_user" /\ db' = db
       /\ \A c \in Clients : (pc[c] = "book_user" /\ pc'[c] # pc[c]) =>
            db'.bookings = db.bookings /\ db'.payments = db.payments
       /\ Grows("bookings") =>
            \E c \in Clients :
                /\ pc[c] = "book_insert" /\ pc'[c] = "book_payment"
                /\ BookFormValid(loc[c].form[1])
                /\ db'.bookings[Len(db'.bookings)].persons = int(loc[c].form[1].persons)
       /\ Grows("payments") =>
            \E c \in Clients :
                /\ pc[c] = "book_payment" /\ pc'[c] = "book_update"
                /\ BookFormValid(loc[c].form[1])
                /\ LET p == db'.payments[Len(db'.payments)] IN
                   /\ Cardinality(BookingsOf(p)) = 1
                   /\ \A i \in BookingsOf(p) :
                         p.amount = loc[c].package[1].price * db'.bookings[i].persons]_vars
\* a payment for two persons at the price the request read, after the admin
\* has changed the price of the package
C21_Witness ==
    \E c \in Clients :
        /\ pc[c] = "book_update"
        /\ db.payments # <<>>
        /\ \E i \in 1..Len(db.packages) :
              /\ db.packages[i].id = loc[c].package[1].id
              /\ db.packages[i].price # loc[c].package[1].price
        /\ db.payments[Len(db.payments)].amount = 2 * loc[c].package[1].price

====
